---- MODULE Spec2Model ----
(***************************************************************************)
(* A model of the MIPS simulator (backend/mips_simulator.py) and of the    *)
(* two-pass assembler (backend/mips_assembler.py, backend/mips_consts.py), *)
(* and of the disassembler (backend/mips_disassembler.py).                 *)
(*                                                                         *)
(* Python integers are unbounded, and the machine words are 32 bits wide,  *)
(* which is wider than the integers of the model checker.  An integer n is *)
(* therefore held as the record [h |-> n \div 2^16, l |-> n % 2^16]: l is  *)
(* the low half (0..65535), h the rest, of either sign.  All arithmetic of *)
(* the code is carried out on that representation with no loss of width.   *)
(*                                                                         *)
(* A Python value that may be None is held as a sequence: <<>> for None,   *)
(* <<x>> for the value x.  Text is held as a sequence of character codes.  *)
(***************************************************************************)
EXTENDS Integers, Sequences, FiniteSets, TLC

VARIABLES
    \* ---- MipsSimulator fields (mips_simulator.py, reset) ----
    registers, pc, hi, lo, memory,
    instructions, instruction_map, text_segment, data_segment,
    text_base, data_base,
    state, error_message, exit_code, termination_reason,
    persistent_output, output_buffer, input_needed, input_buffer,
    program_break,
    \* ---- the last call made on the simulator and what it returned ----
    call, ret,
    \* ---- the step calls and the memory-access calls the caller has made
    \*      since the last reset or load_program ----
    nSteps, nMem,
    \* ---- MipsAssembler fields (mips_assembler.py, __init__) ----
    symbol_table, asm_data_segment, current_address, parsed_lines,
    machine_code, errors, in_data_segment,
    \* ---- assemble() in progress: the source given to it, the part of it
    \*      that is running, the position of its loop, and second_pass's
    \*      local list of base instructions ----
    source, phase, idx, final_instructions,
    \* ---- the calls of assemble() that have returned on this instance with
    \*      one of the fixed sources, each with what it returned ----
    assembled,
    \* ---- MipsDisassembler field (mips_disassembler.py, __init__) ----
    dis_errors,
    \* ---- the last call made on the disassembler and what it returned,
    \*      and the last instruction the assembler's encoders were given
    \*      with the word they made of it ----
    dcall, dret, encoded

simvars == <<registers, pc, hi, lo, memory, instructions, instruction_map,
             text_segment, data_segment, text_base, data_base, state,
             error_message, exit_code, termination_reason, persistent_output,
             output_buffer, input_needed, input_buffer, program_break>>

auxvars == <<call, ret, nSteps, nMem>>

asmvars == <<symbol_table, asm_data_segment, current_address, parsed_lines,
             machine_code, errors, in_data_segment, source, phase, idx,
             final_instructions, assembled>>

disvars == <<dis_errors, dcall, dret, encoded>>

vars == <<simvars, auxvars, asmvars, disvars>>

-----------------------------------------------------------------------------
(* Bounds of the exploration.                                              *)

MaxSteps == 5
MaxMem == 1
MaxLines == 3

\* the calls of assemble() on one instance that are recorded
MaxRuns == 2

-----------------------------------------------------------------------------
(* Unbounded integers as [h, l] records.                                   *)

Half == 2 ^ 16

W(hv, lv) == [h |-> hv, l |-> lv]

\* an integer of the model checker as an [h, l] record
FromInt(n) == W(n \div Half, n % Half)

BAdd(a, b) == LET s == a.l + b.l IN W(a.h + b.h + (s \div Half), s % Half)

BSub(a, b) == LET d == a.l - b.l IN W(a.h - b.h + (d \div Half), d % Half)

BAddInt(a, n) == BAdd(a, FromInt(n))

BLe(a, b) == a.h < b.h \/ (a.h = b.h /\ a.l <= b.l)

BLt(a, b) == a.h < b.h \/ (a.h = b.h /\ a.l < b.l)

\* x & 0xFFFFFFFF
Mask32(a) == W(a.h % Half, a.l)

\* x * 4
BTimes4(a) == W(a.h * 4 + ((a.l * 4) \div Half), (a.l * 4) % Half)

Zero == W(0, 0)

Pow2(n) == 2 ^ n

RECURSIVE BitAnd(_, _, _)
\* x & y on the low n bits of two non-negative integers
BitAnd(x, y, n) ==
    IF n = 0 THEN 0
    ELSE (IF x % 2 = 1 /\ y % 2 = 1 THEN 1 ELSE 0) + 2 * BitAnd(x \div 2, y \div 2, n - 1)

RECURSIVE BitOr(_, _, _)
\* x | y on the low n bits of two non-negative integers
BitOr(x, y, n) ==
    IF n = 0 THEN 0
    ELSE (IF x % 2 = 1 \/ y % 2 = 1 THEN 1 ELSE 0) + 2 * BitOr(x \div 2, y \div 2, n - 1)

\* a & b and a | b for two values in 0 .. 2^32 - 1
BAnd32(a, b) == W(BitAnd(a.h, b.h, 16), BitAnd(a.l, b.l, 16))

BOr32(a, b) == W(BitOr(a.h, b.h, 16), BitOr(a.l, b.l, 16))

\* (a << s) & 0xFFFFFFFF for a in 0 .. 2^32 - 1 and s in 0 .. 31
Shl32(a, s) ==
    IF s >= 16
    THEN W(((a.l % Pow2(32 - s)) * Pow2(s - 16)) % Half, 0)
    ELSE LET lo2 == a.l * Pow2(s)
         IN  W((a.h % Pow2(16 - s)) * Pow2(s) + (lo2 \div Half), lo2 % Half)

\* a >> s for a in 0 .. 2^32 - 1 and s in 0 .. 31
Shr32(a, s) ==
    IF s >= 16
    THEN W(0, a.h \div Pow2(s - 16))
    ELSE W(a.h \div Pow2(s), (a.l \div Pow2(s)) + (a.h % Pow2(s)) * Pow2(16 - s))

None == <<>>

\* a dict with no key
EmptyMap == [x \in {} |-> 0]

Some(x) == <<x>>

-----------------------------------------------------------------------------
(* Program constants.                                                      *)

TEXT_START == W(64, 0)            \* 0x00400000

DATA_START == W(4097, 0)          \* 0x10010000

STACK_START == W(32767, 65532)    \* 0x7ffffffc

Regs == 0 .. 31

\* a variant of the states step() accepts that lets a failed simulator run on
SteppableAlsoError == {"loaded", "paused", "running", "input_wait", "error"}

\* the states step() accepts
Steppable == {"loaded", "paused", "running", "input_wait"}

-----------------------------------------------------------------------------
(* The simulator object as one record, so that a method is an operator     *)
(* from the object before the call to the object after it.                 *)

Self ==
    [registers |-> registers, pc |-> pc, hi |-> hi, lo |-> lo, memory |-> memory,
     instructions |-> instructions, instruction_map |-> instruction_map,
     text_segment |-> text_segment, data_segment |-> data_segment,
     text_base |-> text_base, data_base |-> data_base,
     state |-> state, error_message |-> error_message, exit_code |-> exit_code,
     termination_reason |-> termination_reason,
     persistent_output |-> persistent_output, output_buffer |-> output_buffer,
     input_needed |-> input_needed, input_buffer |-> input_buffer,
     program_break |-> program_break]

\* the object MipsSimulator.reset leaves behind
Fresh ==
    [registers |-> [r \in Regs |-> Zero], pc |-> TEXT_START, hi |-> Zero, lo |-> Zero,
     memory |-> EmptyMap,
     instructions |-> <<>>, instruction_map |-> EmptyMap,
     text_segment |-> <<>>, data_segment |-> <<>>,
     text_base |-> TEXT_START, data_base |-> DATA_START,
     state |-> "idle", error_message |-> None, exit_code |-> None,
     termination_reason |-> None,
     persistent_output |-> <<>>, output_buffer |-> <<>>,
     input_needed |-> FALSE, input_buffer |-> <<>>,
     program_break |-> DATA_START]

\* the fields of the object become those of the record s
Commit(s) ==
    /\ registers' = s.registers
    /\ pc' = s.pc
    /\ hi' = s.hi
    /\ lo' = s.lo
    /\ memory' = s.memory
    /\ instructions' = s.instructions
    /\ instruction_map' = s.instruction_map
    /\ text_segment' = s.text_segment
    /\ data_segment' = s.data_segment
    /\ text_base' = s.text_base
    /\ data_base' = s.data_base
    /\ state' = s.state
    /\ error_message' = s.error_message
    /\ exit_code' = s.exit_code
    /\ termination_reason' = s.termination_reason
    /\ persistent_output' = s.persistent_output
    /\ output_buffer' = s.output_buffer
    /\ input_needed' = s.input_needed
    /\ input_buffer' = s.input_buffer
    /\ program_break' = s.program_break

\* a reset that leaves the segment bases and the program break as they were
reset_keeping_bases(s) ==
    [s EXCEPT !.registers = Fresh.registers,
              !.pc = Fresh.pc,
              !.hi = Fresh.hi,
              !.lo = Fresh.lo,
              !.memory = Fresh.memory,
              !.instructions = Fresh.instructions,
              !.instruction_map = Fresh.instruction_map,
              !.text_segment = Fresh.text_segment,
              !.data_segment = Fresh.data_segment,
              !.state = Fresh.state,
              !.error_message = Fresh.error_message,
              !.exit_code = Fresh.exit_code,
              !.termination_reason = Fresh.termination_reason,
              !.persistent_output = Fresh.persistent_output,
              !.output_buffer = Fresh.output_buffer,
              !.input_needed = Fresh.input_needed,
              !.input_buffer = Fresh.input_buffer]

\* a reset that leaves the memory of the program before
reset_keeping_memory(s) == [Fresh EXCEPT !.memory = s.memory]

\* reset: every field is assigned anew
reset(s) ==
    [s EXCEPT !.registers = Fresh.registers,
              !.pc = Fresh.pc,
              !.hi = Fresh.hi,
              !.lo = Fresh.lo,
              !.memory = Fresh.memory,
              !.instructions = Fresh.instructions,
              !.instruction_map = Fresh.instruction_map,
              !.text_segment = Fresh.text_segment,
              !.data_segment = Fresh.data_segment,
              !.text_base = Fresh.text_base,
              !.data_base = Fresh.data_base,
              !.state = Fresh.state,
              !.error_message = Fresh.error_message,
              !.exit_code = Fresh.exit_code,
              !.termination_reason = Fresh.termination_reason,
              !.persistent_output = Fresh.persistent_output,
              !.output_buffer = Fresh.output_buffer,
              !.input_needed = Fresh.input_needed,
              !.input_buffer = Fresh.input_buffer,
              !.program_break = Fresh.program_break]

-----------------------------------------------------------------------------
(* Byte memory: a defaultdict from address to byte, 0 where nothing was    *)
(* stored.  No code observes whether a key is present, only the byte read, *)
(* so a stored 0 is held as an absent key.                                 *)

MemGet(m, a) == IF a \in DOMAIN m THEN m[a] ELSE 0

MemSet(m, a, b) ==
    IF b = 0
    THEN [x \in (DOMAIN m) \ {a} |-> m[x]]
    ELSE [x \in (DOMAIN m) \cup {a} |-> IF x = a THEN b ELSE m[x]]

RECURSIVE MemSetBytes(_, _, _, _)
\* for i in range(len(bs)): memory[a + i] = bs[i], the first i bytes being done
MemSetBytes(m, a, bs, i) ==
    IF i >= Len(bs) THEN m
    ELSE MemSetBytes(MemSet(m, BAddInt(a, i), bs[i + 1]), a, bs, i + 1)

\* bytearray(self.memory[address + i] for i in range(num_bytes))
MemBytes(m, a, n) == [i \in 1 .. n |-> MemGet(m, BAddInt(a, i - 1))]

-----------------------------------------------------------------------------
(* struct.pack / struct.unpack, little-endian.                             *)

\* the least and the greatest value struct.pack takes for '<b', '<h', '<i'
SignedMin(n) == IF n = 1 THEN W(-1, Half - 128)
                ELSE IF n = 2 THEN W(-1, 32768) ELSE W(-32768, 0)

SignedMax(n) == IF n = 1 THEN W(0, 127)
                ELSE IF n = 2 THEN W(0, 32767) ELSE W(32767, Half - 1)

\* a variant of the range test that takes every value (a truncating pack)
PackFitsAlways(v, n) == TRUE

PackFits(v, n) == BLe(SignedMin(n), v) /\ BLe(v, SignedMax(n))

\* a variant of the packing that puts the most significant byte first
PackWrongOrder(v, n) ==
    LET m == Mask32(v)
        b == <<m.h \div 256, m.h % 256, m.l \div 256, m.l % 256>>
    IN  [i \in 1 .. n |-> b[4 - n + i]]

\* the n bytes struct.pack gives for a value it takes
PackBytes(v, n) ==
    LET m == Mask32(v)
        b == <<m.l % 256, m.l \div 256, m.h % 256, m.h \div 256>>
    IN  [i \in 1 .. n |-> b[i]]

\* struct.unpack '<B', '<H', '<I'
UnpackUnsigned(bs) ==
    IF Len(bs) = 1 THEN W(0, bs[1])
    ELSE IF Len(bs) = 2 THEN W(0, bs[2] * 256 + bs[1])
    ELSE W(bs[4] * 256 + bs[3], bs[2] * 256 + bs[1])

\* struct.unpack '<b', '<h', '<i'
UnpackSigned(bs) ==
    LET u == UnpackUnsigned(bs)
    IN  IF Len(bs) = 1 THEN (IF u.l >= 128 THEN W(-1, u.l + Half - 256) ELSE u)
        ELSE IF Len(bs) = 2 THEN (IF u.l >= 32768 THEN W(-1, u.l) ELSE u)
        ELSE (IF u.h >= 32768 THEN W(u.h - Half, u.l) ELSE u)

-----------------------------------------------------------------------------
(* Memory access methods.  Each gives the object after the call and the    *)
(* value returned.                                                         *)

Result(s, r) == [s |-> s, ret |-> r, raised |-> FALSE]

\* a variant that makes the state error and records no message
WithErrorWithoutMessage(s, msg) == [s EXCEPT !.state = "error"]

WithError(s, msg) == [s EXCEPT !.state = "error", !.error_message = Some(msg)]

\* a variant of the alignment test that tests half-word accesses only
_check_alignment_halfword_only(address, num_bytes) ==
    ~(num_bytes = 2 /\ address.l % 2 # 0)

_check_alignment(address, num_bytes) ==
    IF num_bytes = 2 /\ address.l % 2 # 0 THEN FALSE
    ELSE IF num_bytes = 4 /\ address.l % 4 # 0 THEN FALSE
    ELSE TRUE

read_memory(s, address, num_bytes) ==
    IF ~_check_alignment(address, num_bytes)
    THEN Result(WithError(s, <<"Unaligned memory read", address, num_bytes>>), Zero)
    ELSE IF num_bytes \in {1, 2, 4}
    THEN Result(s, UnpackSigned(MemBytes(s.memory, address, num_bytes)))
    ELSE Result(WithError(s, <<"Memory read error", address,
                               "Invalid number of bytes to read">>), Zero)

read_memory_unsigned(s, address, num_bytes) ==
    IF ~_check_alignment(address, num_bytes)
    THEN Result(WithError(s, <<"Unaligned memory read", address, num_bytes>>), Zero)
    ELSE IF num_bytes \in {1, 2, 4}
    THEN Result(s, UnpackUnsigned(MemBytes(s.memory, address, num_bytes)))
    ELSE Result(WithError(s, <<"Memory read error", address,
                               "Invalid number of bytes to read unsigned">>), Zero)

write_memory(s, address, value, num_bytes) ==
    IF ~_check_alignment(address, num_bytes)
    THEN Result(WithError(s, <<"Unaligned memory write", address, num_bytes>>), FALSE)
    ELSE IF num_bytes \notin {1, 2, 4}
    THEN Result(WithError(s, <<"Memory write error", address,
                               "Invalid number of bytes to write">>), FALSE)
    ELSE IF ~PackFits(value, num_bytes)
    THEN Result(WithError(s, <<"Memory write error", address, value,
                               "out of range for", num_bytes>>), FALSE)
    ELSE Result([s EXCEPT !.memory =
                     MemSetBytes(s.memory, address, PackBytes(value, num_bytes), 0)],
                TRUE)

-----------------------------------------------------------------------------
(* Text given to load_program.  A piece of text that is to be read as hex  *)
(* is a sequence of digit values 0..15; NotHex stands for any character     *)
(* that is no hex digit.  A code entry is [pfx, d]: the text d, after the   *)
(* characters "0x" when pfx holds.                                         *)

NotHex == 16

BTimes16Plus(a, d) ==
    LET p == a.l * 16 + d IN W(a.h * 16 + (p \div Half), p % Half)

RECURSIVE HexValue(_, _)
\* int(text, 16) of the digits d, acc being the value of those already read
HexValue(d, acc) ==
    IF d = <<>> THEN acc ELSE HexValue(Tail(d), BTimes16Plus(acc, Head(d)))

\* int('0x' + d, 16) raises ValueError
HexInvalid(d) == d = <<>> \/ \E i \in 1 .. Len(d) : d[i] = NotHex

\* int.to_bytes(4, byteorder='little', signed=False) raises OverflowError
TooWide(v) == v.h >= Half

\* bytearray.fromhex raises ValueError
FromHexInvalid(d) == Len(d) % 2 # 0 \/ \E i \in 1 .. Len(d) : d[i] = NotHex

\* bytearray.fromhex(d)
FromHex(d) == [i \in 1 .. (Len(d) \div 2) |-> d[2 * i - 1] * 16 + d[2 * i]]

RECURSIVE LoadCode(_, _, _, _)
\* the loop of load_program over machine_code_hex, entry i (from 0) being next
LoadCode(s, code, i, current_addr) ==
    IF i >= Len(code) THEN [s |-> s, raised |-> "no"]
    ELSE LET e == code[i + 1]
         IN  IF ~e.pfx /\ e.d = <<>>
             THEN LoadCode(s, code, i + 1, current_addr)
             ELSE IF HexInvalid(e.d)
             THEN [s |-> s, raised |-> "ValueError"]
             ELSE LET int_code == HexValue(e.d, Zero)
                      s1 == [s EXCEPT !.instructions = Append(@, int_code),
                                      !.instruction_map =
                                          [a \in (DOMAIN @) \cup {current_addr} |->
                                              IF a = current_addr THEN i ELSE @[a]]]
                  IN  IF TooWide(int_code)
                      THEN [s |-> s1, raised |-> "OverflowError"]
                      ELSE LET bs == PackBytes(int_code, 4)
                               s2 == [s1 EXCEPT
                                        !.memory = MemSetBytes(@, current_addr, bs, 0),
                                        !.text_segment = @ \o bs]
                           IN  LoadCode(s2, code, i + 1, BAddInt(current_addr, 4))

\* a load that puts the stack top in the wrong register
InitStackWrongRegister(R) == [R EXCEPT ![0] = STACK_START]

\* self.registers[29] = STACK_START
InitStack(R) == [R EXCEPT ![29] = STACK_START]

\* load_program: the object after the call and the value returned; raised: an
\* exception left load_program
load_program(s, code, data, base_text, base_data) ==
    LET s0 == [reset(s) EXCEPT !.text_base = base_text, !.data_base = base_data,
                            !.pc = base_text]
        lc == LoadCode(s0, code, 0, base_text)
    IN  IF lc.raised = "ValueError"
        THEN Result(WithError(lc.s, <<"Invalid machine code hex format during load">>),
                    FALSE)
        ELSE IF lc.raised = "OverflowError"
        THEN [s |-> lc.s, ret |-> FALSE, raised |-> TRUE]
        ELSE IF FromHexInvalid(data)
        THEN Result(WithError(lc.s, <<"Invalid data segment hex format during load">>),
                    FALSE)
        ELSE LET bs == FromHex(data)
             IN  Result([lc.s EXCEPT
                            !.data_segment = bs,
                            !.memory = MemSetBytes(@, base_data, bs, 0),
                            !.program_break = BAddInt(base_data, Len(bs)),
                            !.registers = InitStack(@),
                            !.state = "loaded"],
                        TRUE)

-----------------------------------------------------------------------------
(* Helpers of step.                                                        *)

\* to_signed_32
to_signed_32(v) ==
    LET u == Mask32(v) IN IF u.h >= 32768 THEN W(u.h - Half, u.l) ELSE u

\* _sign_extend_imm(imm, 16); the result fits a small integer
_sign_extend_imm(imm) == IF imm >= 32768 THEN imm - Half ELSE imm

\* _set_register
_set_register(s, reg_index, value) ==
    IF 0 < reg_index /\ reg_index < 32
    THEN [s EXCEPT !.registers[reg_index] = Mask32(value)]
    ELSE s

\* _unimplemented_instruction
_unimplemented_instruction(s, instruction, type_str, field, fieldval) ==
    WithError(s, <<"Execution not implemented", type_str, s.pc, instruction,
                   field, fieldval>>)

RECURSIVE DecDigits(_)
\* the decimal digits, as character codes, of an integer n >= 0
DecDigits(n) ==
    LET t == (n.h % 10) * Half + n.l
        q == W(n.h \div 10, t \div 10)
    IN  (IF q = Zero THEN <<>> ELSE DecDigits(q)) \o <<48 + (t % 10)>>

\* str(n)
Str(n) == IF n.h < 0 THEN <<45>> \o DecDigits(BSub(Zero, n)) ELSE DecDigits(n)

max_len == 1024

\* a variant of the reading loop that reads one byte more before it gives up
CStringOneMore(m, address, count) ==
    LET nulls == { n \in count .. max_len : MemGet(m, BAddInt(address, n)) = 0 }
    IN  IF nulls = {} THEN <<-1>>
        ELSE LET end == CHOOSE n \in nulls : \A k \in nulls : n <= k
             IN  [k \in 1 .. end - count |-> MemGet(m, BAddInt(address, count + k - 1))]

\* the bytes from address up to the first 0 byte, count of them being read
\* already; <<-1>> when the loop ends at max_len without meeting a 0 (no
\* byte is negative).  The loop of the source is written as the search of
\* the first offset below max_len that holds 0.
CString(m, address, count) ==
    LET nulls == { n \in count .. max_len - 1 : MemGet(m, BAddInt(address, n)) = 0 }
    IN  IF nulls = {} THEN <<-1>>
        ELSE LET end == CHOOSE n \in nulls : \A k \in nulls : n <= k
             IN  [k \in 1 .. end - count |-> MemGet(m, BAddInt(address, count + k - 1))]

\* _execute_syscall: the object after it, and the next pc it returns
_execute_syscall(s) ==
    LET syscall_code == s.registers[2]
        advance == BAddInt(s.pc, 4)
    IN  IF syscall_code = W(0, 1)
        THEN LET output_str == Str(to_signed_32(s.registers[4]))
             IN  [s |-> [s EXCEPT !.persistent_output = @ \o output_str,
                                  !.output_buffer = output_str],
                  pc_next |-> advance]
        ELSE IF syscall_code = W(0, 4)
        THEN LET address == s.registers[4]
                 bytes == CString(s.memory, address, 0)
             IN  IF bytes = <<-1>>
                 THEN [s |-> WithError(s, <<"Syscall print_string exceeded max length",
                                            address>>),
                       pc_next |-> advance]
                 ELSE IF \E i \in 1 .. Len(bytes) : bytes[i] >= 128
                 THEN [s |-> WithError(s, <<"Syscall print_string found non-ASCII data",
                                            address>>),
                       pc_next |-> advance]
                 ELSE [s |-> [s EXCEPT !.persistent_output = @ \o bytes,
                                       !.output_buffer = bytes],
                       pc_next |-> advance]
        ELSE IF syscall_code = W(0, 10)
        THEN [s |-> [s EXCEPT !.state = "finished", !.exit_code = Some(0),
                              !.termination_reason =
                                  Some("Program exited via syscall 10.")],
              pc_next |-> s.pc]
        ELSE [s |-> WithError(s, <<"Unimplemented syscall", syscall_code>>),
              pc_next |-> advance]

-----------------------------------------------------------------------------
(* step: decode and execute.                                               *)

Decode(instruction) ==
    [opcode |-> (instruction.h \div 1024) % 64,
     rs |-> (instruction.h \div 32) % 32,
     rt |-> instruction.h % 32,
     rd |-> (instruction.l \div 2048) % 32,
     shamt |-> (instruction.l \div 64) % 32,
     funct |-> instruction.l % 64,
     imm |-> instruction.l,
     imm_signed |-> _sign_extend_imm(instruction.l),
     addr |-> W(instruction.h % 1024, instruction.l)]

\* (addr << 2) | (pc & 0xF0000000)
JumpTarget(addr, pcv) ==
    W(((pcv.h % Half) \div 4096) * 4096 + addr.h * 4 + ((addr.l * 4) \div Half),
      (addr.l * 4) % Half)

\* a variant of the branch target that adds the offset in bytes
BranchTargetInBytes(pcv, imm_signed) == BAddInt(pcv, 4 + imm_signed)

\* pc + 4 + (imm_signed * 4)
BranchTarget(pcv, imm_signed) == BAddInt(pcv, 4 + imm_signed * 4)

Go(s, pc_next) == [s |-> s, pc_next |-> pc_next, raised |-> FALSE]

\* the R-type arm of step's dispatch (opcode 0)
ExecRType(s, instruction, f, pc_next) ==
    LET R == s.registers
    IN  IF f.funct = 33        \* 0x21 addu
        THEN Go(_set_register(s, f.rd, Mask32(BAdd(R[f.rs], R[f.rt]))), pc_next)
        ELSE IF f.funct = 35   \* 0x23 subu
        THEN Go(_set_register(s, f.rd, Mask32(BSub(R[f.rs], R[f.rt]))), pc_next)
        ELSE IF f.funct = 36   \* 0x24 and
        THEN Go(_set_register(s, f.rd, BAnd32(R[f.rs], R[f.rt])), pc_next)
        ELSE IF f.funct = 37   \* 0x25 or
        THEN Go(_set_register(s, f.rd, BOr32(R[f.rs], R[f.rt])), pc_next)
        ELSE IF f.funct = 0    \* 0x00 sll, the word 0 being nop
        THEN IF instruction # Zero
             THEN Go(_set_register(s, f.rd, Shl32(R[f.rt], f.shamt)), pc_next)
             ELSE Go(s, pc_next)
        ELSE IF f.funct = 2    \* 0x02 srl
        THEN Go(_set_register(s, f.rd, Shr32(Mask32(R[f.rt]), f.shamt)), pc_next)
        ELSE IF f.funct = 8    \* 0x08 jr
        THEN LET target_addr == R[f.rs]
             IN  IF target_addr.l % 4 # 0
                 THEN Go(WithError(s, <<"Jump Register target address unaligned",
                                        target_addr>>), pc_next)
                 ELSE Go(s, target_addr)
        ELSE IF f.funct = 9    \* 0x09 jalr
        THEN LET target_addr == R[f.rs]
                 dest_reg == IF f.rd # 0 THEN f.rd ELSE 31
             IN  IF target_addr.l % 4 # 0
                 THEN Go(WithError(s,
                            <<"Jump and Link Register target address unaligned",
                              target_addr>>), pc_next)
                 ELSE Go(_set_register(s, dest_reg, BAddInt(s.pc, 8)), target_addr)
        ELSE IF f.funct = 12   \* 0x0c syscall
        THEN LET sc == _execute_syscall(s) IN Go(sc.s, sc.pc_next)
        ELSE Go(_unimplemented_instruction(s, instruction, "R-Type", "funct", f.funct),
                pc_next)

\* the whole dispatch of step on opcode; raised: an exception left the dispatch
Execute(s, instruction, f, pc_next) ==
    LET R == s.registers
        taken == BranchTarget(s.pc, f.imm_signed)
    IN  IF f.opcode = 0 THEN ExecRType(s, instruction, f, pc_next)
        ELSE IF f.opcode \in {2, 3}     \* j, jal
        THEN Go(IF f.opcode = 3 THEN _set_register(s, 31, BAddInt(s.pc, 8)) ELSE s,
                JumpTarget(f.addr, s.pc))
        ELSE IF f.opcode = 4            \* beq
        THEN Go(s, IF R[f.rs] = R[f.rt] THEN taken ELSE pc_next)
        ELSE IF f.opcode = 5            \* bne
        THEN Go(s, IF R[f.rs] # R[f.rt] THEN taken ELSE pc_next)
        ELSE IF f.opcode = 6            \* blez
        THEN Go(s, IF BLe(to_signed_32(R[f.rs]), Zero) THEN taken ELSE pc_next)
        ELSE IF f.opcode = 7            \* bgtz
        THEN Go(s, IF BLt(Zero, to_signed_32(R[f.rs])) THEN taken ELSE pc_next)
        ELSE IF f.opcode = 1            \* REGIMM
        THEN IF f.rt = 0                \* bltz
             THEN Go(s, IF BLt(to_signed_32(R[f.rs]), Zero) THEN taken ELSE pc_next)
             ELSE IF f.rt = 1           \* bgez
             THEN Go(s, IF BLe(Zero, to_signed_32(R[f.rs])) THEN taken ELSE pc_next)
             \* _unimplemented_instruction has no parameter rt: the call raises
             \* TypeError, which step's handler turns into a runtime exception
             ELSE [s |-> WithError(s, <<"Runtime exception", s.pc,
                                        "unexpected keyword argument 'rt'">>),
                   pc_next |-> pc_next, raised |-> TRUE]
        ELSE IF f.opcode = 9            \* 0x09 addiu
        THEN Go(_set_register(s, f.rt, Mask32(BAddInt(R[f.rs], f.imm_signed))), pc_next)
        ELSE IF f.opcode = 13           \* 0x0d ori
        THEN Go(_set_register(s, f.rt, W(R[f.rs].h, BitOr(R[f.rs].l, f.imm, 16))),
                pc_next)
        ELSE IF f.opcode = 15           \* 0x0f lui
        THEN Go(_set_register(s, f.rt, W(f.imm, 0)), pc_next)
        ELSE IF f.opcode = 35           \* 0x23 lw
        THEN LET mem_addr == Mask32(BAddInt(R[f.rs], f.imm_signed))
                 rd == read_memory(s, mem_addr, 4)
             IN  Go(IF rd.s.state # "error" THEN _set_register(rd.s, f.rt, rd.ret)
                    ELSE rd.s, pc_next)
        ELSE IF f.opcode = 43           \* 0x2b sw
        THEN LET mem_addr == Mask32(BAddInt(R[f.rs], f.imm_signed))
             IN  Go(write_memory(s, mem_addr, R[f.rt], 4).s, pc_next)
        ELSE Go(_unimplemented_instruction(s, instruction, "I/J-Type", "opcode",
                                           f.opcode), pc_next)

\* a variant that moves pc on after a syscall that finished the run
AfterExecuteAdvancing(x) ==
    IF x.raised THEN x.s
    ELSE LET s1 == [x.s EXCEPT !.registers[0] = Zero]
         IN  IF s1.state \notin {"error", "input_wait"}
             THEN [s1 EXCEPT !.pc = BAddInt(@, 4),
                             !.state = IF @ = "finished" THEN @ ELSE "paused"]
             ELSE s1

\* a variant that goes on after an instruction that made the state error
AfterExecuteSkipping(x) ==
    IF x.raised THEN x.s
    ELSE LET s1 == [x.s EXCEPT !.registers[0] = Zero]
         IN  IF s1.state \notin {"finished", "input_wait"}
             THEN [s1 EXCEPT !.pc = x.pc_next, !.state = "paused"]
             ELSE s1

\* what step does after the dispatch: $zero, then pc and state
AfterExecute(x) ==
    IF x.raised THEN x.s
    ELSE LET s1 == [x.s EXCEPT !.registers[0] = Zero]
         IN  IF s1.state \notin {"error", "finished", "input_wait"}
             THEN [s1 EXCEPT !.pc = x.pc_next, !.state = "paused"]
             ELSE s1

\* step, up to the snapshot it returns; raised: an exception left step
step(s) ==
    IF s.state \notin Steppable THEN [s |-> s, raised |-> FALSE]
    ELSE IF s.pc.l % 4 # 0
    THEN [s |-> WithError(s, <<"PC unaligned", s.pc>>), raised |-> FALSE]
    ELSE IF s.pc \notin DOMAIN s.instruction_map
    THEN IF BLe(DATA_START, s.pc)
         THEN [s |-> WithError(s, <<"PC attempted to execute from data/stack/invalid region",
                                    s.pc>>),
               raised |-> FALSE]
         ELSE [s |-> [s EXCEPT !.state = "finished", !.exit_code = Some(0),
                               !.termination_reason =
                                   Some("Execution ran off the end of the program.")],
               raised |-> FALSE]
    ELSE LET instr_index == s.instruction_map[s.pc]
         IN  IF instr_index >= Len(s.instructions)
             THEN [s |-> s, raised |-> TRUE]      \* IndexError, outside the try
             ELSE LET instruction == s.instructions[instr_index + 1]
                      s1 == [s EXCEPT !.output_buffer = <<>>, !.error_message = None]
                  IN  [s |-> AfterExecute(Execute(s1, instruction, Decode(instruction),
                                                  BAddInt(s.pc, 4))),
                       raised |-> FALSE]

-----------------------------------------------------------------------------
(* get_state: the snapshot.  It reads memory and changes no field.         *)

MAX_MEM_WORDS == 256

BMin(a, b) == IF BLe(a, b) THEN a ELSE b

BMax(a, b) == IF BLe(a, b) THEN b ELSE a

\* the addresses of the data view, in order
DataViewAddrs(s) ==
    LET data_view_start == s.data_base
        data_view_end_desired ==
            BMin(BAddInt(s.data_base, 256), BAddInt(s.program_break, 128))
        data_view_end ==
            BMin(data_view_end_desired,
                 BAddInt(data_view_start, (MAX_MEM_WORDS \div 2) * 4))
    IN  {a \in {BAddInt(data_view_start, 4 * k) : k \in 0 .. (MAX_MEM_WORDS \div 2) - 1} :
            BLt(a, data_view_end) /\ a.l % 4 = 0}

\* the addresses of the stack view
StackViewAddrs(s) ==
    LET word_count == Cardinality(DataViewAddrs(s))
        max_stack_words == MAX_MEM_WORDS - word_count
        stack_view_top == BAddInt(STACK_START, 4)
        sp_val == s.registers[29]
        desired == IF BLt(sp_val, Zero) \/ BLt(STACK_START, sp_val)
                   THEN BAddInt(STACK_START, -128) ELSE BAddInt(sp_val, -128)
        bottom1 == BMin(BMax(Zero, desired), stack_view_top)
        \* (stack_view_top - stack_view_bottom) // 4 > MAX_MEM_WORDS // 2
        far == BLt(W(0, (MAX_MEM_WORDS \div 2) * 4 + 3), BSub(stack_view_top, bottom1))
        stack_view_bottom ==
            IF far THEN BMax(Zero, BAddInt(stack_view_top, -((MAX_MEM_WORDS \div 2) * 4)))
            ELSE bottom1
        cand(k) == BAddInt(stack_view_bottom, 4 * k)
        ok(k) == /\ BLt(cand(k), stack_view_top)
                 /\ cand(k).l % 4 = 0
                 /\ BLe(Zero, cand(k))
                 /\ cand(k) \notin DataViewAddrs(s)
        ks == 0 .. (MAX_MEM_WORDS \div 2)
    IN  {cand(k) : k \in {k \in ks : ok(k) /\
                            Cardinality({j \in ks : j < k /\ ok(j)}) < max_stack_words}}

get_state(s) ==
    [pc |-> s.pc, registers |-> s.registers, hi |-> s.hi, lo |-> s.lo,
     state |-> s.state, error |-> s.error_message, exit_code |-> s.exit_code,
     output |-> s.persistent_output, input_needed |-> s.input_needed,
     memory_view |-> [a \in DataViewAddrs(s) \cup StackViewAddrs(s) |->
                         read_memory(s, a, 4).ret],
     termination_reason |-> IF s.state = "finished" THEN s.termination_reason ELSE None]

-----------------------------------------------------------------------------
(* What the caller passes in.                                              *)

\* the text "0x%08x" of a 32-bit word
Hex8(w) ==
    [pfx |-> TRUE,
     d |-> <<w.h \div 4096, (w.h \div 256) % 16, (w.h \div 16) % 16, w.h % 16,
             w.l \div 4096, (w.l \div 256) % 16, (w.l \div 16) % 16, w.l % 16>>]

HexList(ws) == [i \in 1 .. Len(ws) |-> Hex8(ws[i])]

\* R-, I- and J-type words from their fields
RWord(rs, rt, rd, shamt, funct) == W(rs * 32 + rt, rd * 2048 + shamt * 64 + funct)

IWord(opcode, rs, rt, imm) == W(opcode * 1024 + rs * 32 + rt, imm)

JWord(opcode, target26) == W(opcode * 1024 + (target26 \div Half), target26 % Half)

EmptyText == [pfx |-> FALSE, d |-> <<>>]

CodeLists ==
    { \* addiu $t0,$zero,100; sw $t0,0($sp); lw $t1,0($sp)
      HexList(<<IWord(9, 0, 8, 100), IWord(43, 29, 8, 0), IWord(35, 29, 9, 0)>>),
      \* lui $t0,0x8000; sw $t0,0($sp); lw $t1,0($sp)
      HexList(<<IWord(15, 0, 8, 32768), IWord(43, 29, 8, 0), IWord(35, 29, 9, 0)>>),
      \* addiu $zero,$zero,5; lui $zero,1; jalr $zero,$zero; jal 0x00400000
      HexList(<<IWord(9, 0, 0, 5), IWord(15, 0, 0, 1), RWord(0, 0, 0, 0, 9),
                JWord(3, 1048576)>>),
      \* addiu $v0,$zero,10; syscall
      HexList(<<IWord(9, 0, 2, 10), RWord(0, 0, 0, 0, 12)>>),
      \* syscall (code 0); add $s0,$zero,$zero
      HexList(<<RWord(0, 0, 0, 0, 12), RWord(0, 0, 16, 0, 32)>>),
      \* addiu $t0,$zero,-1; ori $t1,$t0,1; addu $t2,$t0,$t1; lw $zero,4($gp)
      HexList(<<IWord(9, 0, 8, 65535), IWord(13, 8, 9, 1), RWord(8, 9, 10, 0, 33),
                IWord(35, 28, 0, 4)>>),
      \* addiu $t0,$zero,2; jr $t0
      HexList(<<IWord(9, 0, 8, 2), RWord(8, 0, 0, 0, 8)>>),
      \* beq $zero,$zero,1
      HexList(<<IWord(4, 0, 0, 1)>>),
      \* lui $a0,0x1001; addiu $v0,$zero,4; syscall; ori $a0,$a0,5; syscall
      HexList(<<IWord(15, 0, 4, 4097), IWord(9, 0, 2, 4), RWord(0, 0, 0, 0, 12),
                IWord(13, 4, 4, 5), RWord(0, 0, 0, 0, 12)>>),
      \* lui $t0,0x40; sw $t0,8($t0); addiu $t1,$zero,7
      HexList(<<IWord(15, 0, 8, 64), IWord(43, 8, 8, 8), IWord(9, 0, 9, 7)>>),
      \* add $s0,$zero,$zero
      HexList(<<RWord(0, 0, 16, 0, 32)>>),
      \* bgezal $zero,0
      HexList(<<IWord(1, 0, 17, 0)>>),
      \* an empty entry, then nop
      <<EmptyText, Hex8(Zero)>>,
      \* text that is no hex
      <<Hex8(Zero), [pfx |-> FALSE, d |-> <<1, NotHex>>]>>,
      \* a value wider than 32 bits
      <<[pfx |-> TRUE, d |-> <<1, 0, 0, 0, 0, 0, 0, 0, 0>>]>> }

\* data_segment_hex texts
NoData == <<>>

SomeData == <<1, 2, 3, 4, 5, 6, 7, 8, 0, 0, 10, 11>>

OddData == <<1, 2, 3>>

OtherTextBase == W(4097, 256)     \* 0x10010100, at or above DATA_START

OtherDataBase == W(4096, 0)       \* 0x10000000

TopTextBase == W(65535, 65532)    \* 0xfffffffc, the last aligned address

LoadInput(code, data, base_text, base_data) ==
    [code |-> code, data |-> data, base_text |-> base_text, base_data |-> base_data]

\* every code list with the default bases, and some with other data and bases
LoadInputs ==
    {LoadInput(c, SomeData, TEXT_START, DATA_START) : c \in CodeLists}
    \cup {LoadInput(c, NoData, OtherTextBase, OtherDataBase) :
            c \in {c \in CodeLists : Len(c) = 2}}
    \cup {LoadInput(<<Hex8(Zero)>>, OddData, TEXT_START, DATA_START)}
    \* lui $t0,0x1000; jr $t0, the data segment being at 0x10000000
    \cup {LoadInput(HexList(<<IWord(15, 0, 8, 4096), RWord(8, 0, 0, 0, 8)>>), NoData,
                    TEXT_START, OtherDataBase)}
    \* nop, at the last aligned address
    \cup {LoadInput(<<Hex8(Zero)>>, NoData, TopTextBase, DATA_START)}

\* the inputs given to a simulator that is not idle: the one-entry code lists
\* (which load, fail to load, or raise) and both text bases
ReloadInputs == { i \in LoadInputs : Len(i.code) = 1 }

\* load_program starts with reset(), which assigns every field, so what it
\* leaves does not depend on the object it is called on
LoadOutcome ==
    [i \in LoadInputs |->
        load_program(Fresh, i.code, i.data, i.base_text, i.base_data)]

MemAddresses == { DATA_START, BAddInt(DATA_START, 1), BAddInt(DATA_START, 2) }

Sizes == {1, 2, 4}

MemValues ==
    { W(-1, Half - 1),     \* -1
      W(0, 200), W(0, 40000),
      W(4660, 22136),      \* 0x12345678
      W(32768, 0) }        \* 2^31

-----------------------------------------------------------------------------
(* The assembler's tables (mips_consts.py).                                *)

REGISTER_MAP ==
    ("$zero" :> 0) @@ ("$0" :> 0) @@ ("$at" :> 1) @@ ("$1" :> 1) @@
    ("$v0" :> 2) @@ ("$2" :> 2) @@ ("$v1" :> 3) @@ ("$3" :> 3) @@
    ("$a0" :> 4) @@ ("$4" :> 4) @@ ("$a1" :> 5) @@ ("$5" :> 5) @@
    ("$a2" :> 6) @@ ("$6" :> 6) @@ ("$a3" :> 7) @@ ("$7" :> 7) @@
    ("$t0" :> 8) @@ ("$8" :> 8) @@ ("$t1" :> 9) @@ ("$9" :> 9) @@
    ("$t2" :> 10) @@ ("$10" :> 10) @@ ("$t3" :> 11) @@ ("$11" :> 11) @@
    ("$t4" :> 12) @@ ("$12" :> 12) @@ ("$t5" :> 13) @@ ("$13" :> 13) @@
    ("$t6" :> 14) @@ ("$14" :> 14) @@ ("$t7" :> 15) @@ ("$15" :> 15) @@
    ("$s0" :> 16) @@ ("$16" :> 16) @@ ("$s1" :> 17) @@ ("$17" :> 17) @@
    ("$s2" :> 18) @@ ("$18" :> 18) @@ ("$s3" :> 19) @@ ("$19" :> 19) @@
    ("$s4" :> 20) @@ ("$20" :> 20) @@ ("$s5" :> 21) @@ ("$21" :> 21) @@
    ("$s6" :> 22) @@ ("$22" :> 22) @@ ("$s7" :> 23) @@ ("$23" :> 23) @@
    ("$t8" :> 24) @@ ("$24" :> 24) @@ ("$t9" :> 25) @@ ("$25" :> 25) @@
    ("$k0" :> 26) @@ ("$26" :> 26) @@ ("$k1" :> 27) @@ ("$27" :> 27) @@
    ("$gp" :> 28) @@ ("$28" :> 28) @@ ("$sp" :> 29) @@ ("$29" :> 29) @@
    ("$fp" :> 30) @@ ("$30" :> 30) @@ ("$ra" :> 31) @@ ("$31" :> 31)

R_TYPE_FORMATS ==
    [m \in {"add", "addu", "sub", "subu", "and", "or", "xor", "nor", "slt", "sltu"}
        |-> <<"rd", "rs", "rt">>] @@
    [m \in {"sllv", "srlv", "srav"} |-> <<"rd", "rt", "rs">>] @@
    [m \in {"sll", "srl", "sra"} |-> <<"rd", "rt", "shamt">>] @@
    [m \in {"jr", "mthi", "mtlo"} |-> <<"rs">>] @@
    [m \in {"mfhi", "mflo"} |-> <<"rd">>] @@
    [m \in {"mult", "multu", "div", "divu"} |-> <<"rs", "rt">>] @@
    ("jalr" :> <<"rd", "rs">>) @@
    [m \in {"syscall", "break"} |-> <<>>]

I_TYPE_FORMATS ==
    [m \in {"addi", "addiu", "slti", "sltiu", "andi", "ori", "xori"}
        |-> <<"rt", "rs", "imm">>] @@
    [m \in {"lw", "sw", "lb", "lbu", "lh", "lhu", "sb", "sh"} |-> <<"rt", "imm", "rs">>] @@
    ("lui" :> <<"rt", "imm">>) @@
    [m \in {"beq", "bne"} |-> <<"rs", "rt", "label">>] @@
    [m \in {"blez", "bgtz", "bltz", "bgez", "bltzal", "bgezal"} |-> <<"rs", "label">>]

J_TYPE_FORMATS == [m \in {"j", "jal"} |-> <<"target">>]

R_TYPE_FUNCT ==
    ("add" :> 32) @@ ("addu" :> 33) @@ ("sub" :> 34) @@ ("subu" :> 35) @@
    ("and" :> 36) @@ ("or" :> 37) @@ ("xor" :> 38) @@ ("nor" :> 39) @@
    ("slt" :> 42) @@ ("sltu" :> 43) @@
    ("sll" :> 0) @@ ("srl" :> 2) @@ ("sra" :> 3) @@
    ("sllv" :> 4) @@ ("srlv" :> 6) @@ ("srav" :> 7) @@
    ("jr" :> 8) @@ ("jalr" :> 9) @@ ("syscall" :> 12) @@ ("break" :> 13) @@
    ("mfhi" :> 16) @@ ("mthi" :> 17) @@ ("mflo" :> 18) @@ ("mtlo" :> 19) @@
    ("mult" :> 24) @@ ("multu" :> 25) @@ ("div" :> 26) @@ ("divu" :> 27)

I_TYPE_OPCODE ==
    ("addi" :> 8) @@ ("addiu" :> 9) @@ ("slti" :> 10) @@ ("sltiu" :> 11) @@
    ("andi" :> 12) @@ ("ori" :> 13) @@ ("xori" :> 14) @@ ("lui" :> 15) @@
    ("lw" :> 35) @@ ("lb" :> 32) @@ ("lh" :> 33) @@ ("lbu" :> 36) @@ ("lhu" :> 37) @@
    ("sw" :> 43) @@ ("sb" :> 40) @@ ("sh" :> 41) @@
    ("beq" :> 4) @@ ("bne" :> 5) @@ ("blez" :> 6) @@ ("bgtz" :> 7) @@
    ("bltz" :> 1) @@ ("bgez" :> 1) @@ ("bltzal" :> 1) @@ ("bgezal" :> 1)

J_TYPE_OPCODE == ("j" :> 2) @@ ("jal" :> 3)

PSEUDO_INSTRUCTIONS ==
    ("move" :> "_expand_move") @@ ("clear" :> "_expand_clear") @@
    ("nop" :> "_expand_nop") @@ ("li" :> "_expand_li") @@ ("la" :> "_expand_la") @@
    ("blt" :> "_expand_blt") @@ ("bgt" :> "_expand_bgt") @@
    ("ble" :> "_expand_ble") @@ ("bge" :> "_expand_bge")

DIRECTIVES ==
    {".data", ".text", ".globl", ".extern", ".word", ".byte", ".half", ".space",
     ".asciiz", ".ascii", ".align"}

-----------------------------------------------------------------------------
(* Operands and parsed lines.                                              *)
(*                                                                         *)
(* The assembler is modelled from the dictionaries _parse_line returns for  *)
(* the lines it accepts without an error of its own (memory operands are   *)
(* well formed and already split into rt, offset, base; strings are        *)
(* quoted).  An operand string is held as [s, n, dec]: s is its text when  *)
(* it is a name (a register or a label); n is what int(text, 0) gives,     *)
(* None when that raises ValueError; dec tells whether int(text) in base   *)
(* ten takes it too.  The text of a numeral is not kept, so the str(v) of  *)
(* the expansions builds the operand Num(v).  The argument of .ascii and   *)
(* .asciiz is the sequence of the character codes between the quotes.      *)

Name(s) == [s |-> s, n |-> None, dec |-> FALSE]

\* a decimal numeral
Num(v) == [s |-> "<int>", n |-> Some(v), dec |-> TRUE]

\* a numeral written with the 0x prefix
HexNum(v) == [s |-> "<int>", n |-> Some(v), dec |-> FALSE]

\* an integer that fits the model checker's, out of its [h, l] record
ToInt(b) == b.h * Half + b.l

\* the dictionary _parse_line returns for an instruction or a directive
Line(type, label, name, operands) ==
    [type |-> type, label |-> label, name |-> name, operands |-> operands]

Instr(label, name, operands) == Line("instruction", label, name, operands)

Directive(label, name, args) == Line("directive", label, name, args)

base_text_address == 4194304      \* 0x00400000

base_data_address == 268500992    \* 0x10010000

\* self.errors after _add_error(line_num, message)
_add_error(errs, line_num, message) ==
    IF \E i \in 1 .. Len(errs) : errs[i].line = line_num /\ errs[i].message = message
    THEN errs
    ELSE Append(errs, [line |-> line_num, message |-> message])

\* every parser and encoder returns the error list and its return value
Parsed(errs, r) == [errors |-> errs, ret |-> r, raised |-> FALSE]

_parse_register(errs, reg_str, line_num) ==
    IF reg_str.s \notin DOMAIN REGISTER_MAP
    THEN Parsed(_add_error(errs, line_num, <<"Invalid register name", reg_str.s>>), None)
    ELSE Parsed(errs, Some(REGISTER_MAP[reg_str.s]))

\* the value is in range for the encodings, so the masked value is its low half
_parse_immediate(errs, imm_str, line_num, bits, signed) ==
    IF imm_str.n = None
    THEN Parsed(_add_error(errs, line_num, <<"Invalid immediate value", imm_str.s>>), None)
    ELSE LET val == imm_str.n[1]
             min_val == IF signed THEN FromInt(-(2 ^ (bits - 1))) ELSE Zero
             max_val == IF signed THEN FromInt(2 ^ (bits - 1) - 1) ELSE FromInt(2 ^ bits - 1)
         IN  IF ~(BLe(min_val, val) /\ BLe(val, max_val))
             THEN Parsed(_add_error(errs, line_num,
                            <<"Immediate out of range", val, bits, signed>>), None)
             ELSE Parsed(errs, Some(val.l % (2 ^ bits)))

-----------------------------------------------------------------------------
(* The pseudo-instruction handlers (mips_consts.py).  Each returns None or *)
(* the list of base instructions, a base instruction being the dictionary  *)
(* {"instruction", "operands"}.                                            *)

Base(name, operands) == [name |-> name, operands |-> operands]

_expand_move(parsed_line) ==
    LET ops == parsed_line.operands
    IN  IF Len(ops) # 2 THEN None
        ELSE Some(<<Base("add", <<ops[1], ops[2], Name("$zero")>>)>>)

_expand_clear(parsed_line) ==
    LET ops == parsed_line.operands
    IN  IF Len(ops) # 1 THEN None
        ELSE Some(<<Base("add", <<ops[1], Name("$zero"), Name("$zero")>>)>>)

_expand_nop(parsed_line) ==
    Some(<<Base("sll", <<Name("$zero"), Name("$zero"), Num(Zero)>>)>>)

\* a variant that loads the upper half into $at also when it is all there is
UpperLowerAlwaysAt(dst, upper, lower) ==
    IF lower # 0
    THEN <<Base("lui", <<Name("$at"), Num(FromInt(upper))>>),
           Base("ori", <<dst, Name("$at"), Num(FromInt(lower))>>)>>
    ELSE <<Base("lui", <<Name("$at"), Num(FromInt(upper))>>)>>

\* lui $at, upper ; ori dst, $at, lower -- or the lui alone, into dst
UpperLower(dst, upper, lower) ==
    IF lower # 0
    THEN <<Base("lui", <<Name("$at"), Num(FromInt(upper))>>),
           Base("ori", <<dst, Name("$at"), Num(FromInt(lower))>>)>>
    ELSE <<Base("lui", <<dst, Num(FromInt(upper))>>)>>

_expand_li(parsed_line) ==
    LET ops == parsed_line.operands
    IN  IF Len(ops) # 2 THEN None
        ELSE IF ops[2].n = None THEN None
        ELSE LET dst == ops[1]
                 imm_val == ops[2].n[1]
             IN  IF BLe(FromInt(-32768), imm_val) /\ BLe(imm_val, FromInt(32767))
                 THEN Some(<<Base("addiu", <<dst, Name("$zero"), Num(imm_val)>>)>>)
                 ELSE IF BLe(Zero, imm_val) /\ BLe(imm_val, FromInt(65535))
                 THEN Some(<<Base("ori", <<dst, Name("$zero"), Num(imm_val)>>)>>)
                 ELSE Some(UpperLower(dst, imm_val.h % Half, imm_val.l))

_expand_la(parsed_line, symtab) ==
    LET ops == parsed_line.operands
    IN  IF Len(ops) # 2 THEN None
        ELSE IF ops[2].s \notin DOMAIN symtab THEN None
        ELSE LET addr == symtab[ops[2].s]
             IN  Some(UpperLower(ops[1], (addr \div Half) % Half, addr % Half))

_expand_branch_pseudo(condition_instr, invert_branch, ops) ==
    IF Len(ops) # 3 THEN None
    ELSE Some(<<Base(condition_instr, <<Name("$at"), ops[1], ops[2]>>),
                Base(IF invert_branch THEN "beq" ELSE "bne",
                     <<Name("$at"), Name("$zero"), ops[3]>>)>>)

_expand_blt(parsed_line) == _expand_branch_pseudo("slt", FALSE, parsed_line.operands)

_expand_bgt(parsed_line) ==
    LET ops == parsed_line.operands
    IN  IF Len(ops) # 3 THEN None
        ELSE _expand_branch_pseudo("slt", FALSE, <<ops[2], ops[1], ops[3]>>)

_expand_ble(parsed_line) ==
    LET ops == parsed_line.operands
    IN  IF Len(ops) # 3 THEN None
        ELSE _expand_branch_pseudo("slt", TRUE, <<ops[2], ops[1], ops[3]>>)

_expand_bge(parsed_line) == _expand_branch_pseudo("slt", TRUE, parsed_line.operands)

\* PSEUDO_HANDLERS[PSEUDO_INSTRUCTIONS[name]](parsed_line, symbol_table, current_address)
PSEUDO_HANDLERS(parsed_line, symtab) ==
    LET handler_key == PSEUDO_INSTRUCTIONS[parsed_line.name]
    IN  CASE handler_key = "_expand_move" -> _expand_move(parsed_line)
          [] handler_key = "_expand_clear" -> _expand_clear(parsed_line)
          [] handler_key = "_expand_nop" -> _expand_nop(parsed_line)
          [] handler_key = "_expand_li" -> _expand_li(parsed_line)
          [] handler_key = "_expand_la" -> _expand_la(parsed_line, symtab)
          [] handler_key = "_expand_blt" -> _expand_blt(parsed_line)
          [] handler_key = "_expand_bgt" -> _expand_bgt(parsed_line)
          [] handler_key = "_expand_ble" -> _expand_ble(parsed_line)
          [] handler_key = "_expand_bge" -> _expand_bge(parsed_line)

-----------------------------------------------------------------------------
(* The assembler object, and pass 1 (first_pass), one source line at a     *)
(* time.                                                                   *)

Asm ==
    [symbol_table |-> symbol_table, data_segment |-> asm_data_segment,
     current_address |-> current_address, parsed_lines |-> parsed_lines,
     machine_code |-> machine_code, errors |-> errors,
     in_data_segment |-> in_data_segment,
     final_instructions |-> final_instructions]

CommitAsm(a) ==
    /\ symbol_table' = a.symbol_table
    /\ asm_data_segment' = a.data_segment
    /\ current_address' = a.current_address
    /\ parsed_lines' = a.parsed_lines
    /\ machine_code' = a.machine_code
    /\ errors' = a.errors
    /\ in_data_segment' = a.in_data_segment
    /\ final_instructions' = a.final_instructions

\* a variant of the clearing that lets the symbol table survive
ClearedKeepingSymbols ==
    [symbol_table |-> symbol_table, data_segment |-> <<>>,
     current_address |-> base_text_address, parsed_lines |-> <<>>,
     machine_code |-> <<>>, errors |-> <<>>, in_data_segment |-> FALSE,
     final_instructions |-> <<>>]

\* the fields assemble() and first_pass() clear before the first line
Cleared ==
    [symbol_table |-> EmptyMap, data_segment |-> <<>>,
     current_address |-> base_text_address, parsed_lines |-> <<>>,
     machine_code |-> <<>>, errors |-> <<>>, in_data_segment |-> FALSE,
     final_instructions |-> <<>>]

\* the pseudo-instructions pass 1 counts as two words
EstimateEight == {"li", "la", "blt", "bgt", "ble", "bge"}

estimated_increment(instr_name) == IF instr_name \in EstimateEight THEN 8 ELSE 4

\* the characters str.encode('ascii', 'ignore') keeps
AsciiIgnore(chars) == SelectSeq(chars, LAMBDA c : c < 128)

\* int(text) of .space and .align: the value, or None for ValueError
IntBaseTen(arg) == IF arg.dec THEN arg.n ELSE None

\* what a data directive adds to the address, with the errors it records
directive_increment(a, directive, args, line_num) ==
    LET err(m) == [inc |-> 0, errors |-> _add_error(a.errors, line_num, m)]
        ok(n) == [inc |-> n, errors |-> a.errors]
    IN  CASE directive = ".word" -> ok(Len(args) * 4)
          [] directive = ".byte" -> ok(Len(args))
          [] directive = ".half" -> ok(Len(args) * 2)
          [] directive = ".space" ->
                IF Len(args) # 1 THEN err(<<".space expects one argument">>)
                ELSE IF IntBaseTen(args[1]) = None
                THEN err(<<"Invalid size for .space", args[1].s>>)
                ELSE ok(ToInt(args[1].n[1]))
          [] directive = ".asciiz" ->
                IF Len(args) = 1 THEN ok(Len(AsciiIgnore(args[1])) + 1)
                ELSE err(<<".asciiz expects one string argument">>)
          [] directive = ".ascii" ->
                IF Len(args) = 1 THEN ok(Len(AsciiIgnore(args[1])))
                ELSE err(<<".ascii expects one string argument">>)
          [] directive = ".align" ->
                IF Len(args) # 1 THEN err(<<".align expects one argument">>)
                ELSE LET n == IntBaseTen(args[1])
                     IN  IF n = None \/ ~(BLe(Zero, n[1]) /\ BLe(n[1], FromInt(14)))
                         THEN err(<<"Invalid alignment value for .align", args[1].s>>)
                         ELSE LET alignment == 2 ^ ToInt(n[1])
                                  offset == a.current_address % alignment
                              IN  ok(IF offset # 0 THEN alignment - offset ELSE 0)
          [] OTHER -> ok(0)

\* a variant of the label definition in which the later definition wins
define_label_overwriting(a, label, line_num) ==
    IF label \in DOMAIN a.symbol_table
    THEN [a EXCEPT !.errors = _add_error(@, line_num, <<"Duplicate label definition", label>>),
                   !.symbol_table = (label :> a.current_address) @@ @]
    ELSE [a EXCEPT !.symbol_table = (label :> a.current_address) @@ @]

\* the label of a line of pass 1: an error when the table has it already
define_label(a, label, line_num) ==
    IF label \in DOMAIN a.symbol_table
    THEN [a EXCEPT !.errors = _add_error(@, line_num, <<"Duplicate label definition", label>>)]
    ELSE [a EXCEPT !.symbol_table = (label :> a.current_address) @@ @]

\* the body of first_pass's loop for the line numbered line_num
first_pass_line(a0, line, line_num) ==
    LET \* _parse_line records the unknown directive
        a1 == IF line.type = "directive" /\ line.name \notin DIRECTIVES
              THEN [a0 EXCEPT !.errors =
                       _add_error(@, line_num, <<"Unknown directive", line.name>>)]
              ELSE a0
        parsed == [type |-> line.type, label |-> line.label, name |-> line.name,
                   operands |-> line.operands, line_num |-> line_num,
                   address |-> a1.current_address]
        a2 == IF line.label = None THEN a1 ELSE define_label(a1, line.label[1], line_num)
        stored(a) == [a EXCEPT !.parsed_lines = Append(@, parsed)]
    IN  IF line.type = "directive" /\ line.name = ".data"
        THEN stored(IF a2.in_data_segment THEN a2
                    ELSE [a2 EXCEPT !.in_data_segment = TRUE,
                                    !.current_address = base_data_address])
        ELSE IF line.type = "directive" /\ line.name = ".text"
        THEN stored(IF ~a2.in_data_segment THEN a2
                    ELSE [a2 EXCEPT !.in_data_segment = FALSE,
                                    !.current_address = base_text_address])
        ELSE IF line.type = "directive" /\ line.name \in {".globl", ".extern"}
        THEN stored(IF line.operands # <<>> THEN a2
                    ELSE [a2 EXCEPT !.errors = _add_error(@, line_num,
                              <<"Directive requires at least one symbol argument", line.name>>)])
        ELSE IF line.type = "directive" /\ ~a2.in_data_segment
        THEN stored([a2 EXCEPT !.errors = _add_error(@, line_num,
                         <<"Directive only allowed in .data segment", line.name>>)])
        ELSE IF line.type = "directive"
        THEN LET d == directive_increment(a2, line.name, line.operands, line_num)
             IN  stored([a2 EXCEPT !.errors = d.errors,
                                   !.current_address = @ + d.inc])
        ELSE IF line.type = "instruction"
        THEN stored(IF a2.in_data_segment
                    THEN [a2 EXCEPT !.errors = _add_error(@, line_num,
                              <<"Instructions not allowed in .data segment">>)]
                    ELSE [a2 EXCEPT !.current_address = @ + estimated_increment(line.name)])
        ELSE stored(a2)

-----------------------------------------------------------------------------
(* The encoders.  Each takes the error list and a base instruction with    *)
(* its final address, and returns the error list and the word or None.     *)

_resolve_label(errs, symtab, label_name, line_num) ==
    IF label_name.s \notin DOMAIN symtab
    THEN Parsed(_add_error(errs, line_num, <<"Undefined label", label_name.s>>), None)
    ELSE Parsed(errs, Some(symtab[label_name.s]))

\* a variant of the branch offset that counts from the branch itself
word_offset_from_branch(target_addr, address) == (target_addr - address) \div 4

\* (target_addr - (address + 4)) >> 2
word_offset(target_addr, address) == (target_addr - (address + 4)) \div 4

\* one operand of a format: the error list, and None or the value of the field
parse_operand(errs, symtab, instr_details, op_type, op_str) ==
    LET instr == instr_details.name
        line_num == instr_details.original_line_num
    IN  CASE op_type \in {"rd", "rs", "rt"} -> _parse_register(errs, op_str, line_num)
          [] op_type = "shamt" -> _parse_immediate(errs, op_str, line_num, 5, FALSE)
          [] op_type = "imm" ->
                _parse_immediate(errs, op_str, line_num, 16,
                                 instr \notin {"andi", "ori", "xori", "lui", "sltiu"})
          [] op_type = "label" ->
                LET t == _resolve_label(errs, symtab, op_str, line_num)
                IN  IF t.ret = None THEN t
                    ELSE LET target_addr == t.ret[1]
                             pc_plus_4 == instr_details.address + 4
                             off == word_offset(target_addr, instr_details.address)
                         IN  IF (target_addr - pc_plus_4) % 4 # 0
                             THEN Parsed(_add_error(errs, line_num,
                                      <<"Branch target is not word-aligned", op_str.s,
                                        target_addr, pc_plus_4>>), None)
                             ELSE IF ~(-32768 <= off /\ off <= 32767)
                             THEN Parsed(_add_error(errs, line_num,
                                      <<"Branch target too far", op_str.s, off>>), None)
                             ELSE Parsed(errs, Some(off % Half))

\* the key of vals an operand type is stored under
ValsKey(op_type) == IF op_type = "label" THEN "imm" ELSE op_type

RECURSIVE ParseOperands(_, _, _, _, _, _)
\* the operands of a format, parsed from the left until one fails:
\* vals maps the operand types parsed so far to their values
ParseOperands(errs, symtab, instr_details, expected_ops, i, vals) ==
    IF i > Len(expected_ops) THEN Parsed(errs, Some(vals))
    ELSE IF i > Len(instr_details.operands)
    THEN [errors |-> errs, ret |-> None, raised |-> TRUE]     \* IndexError
    ELSE LET r == parse_operand(errs, symtab, instr_details, expected_ops[i],
                                instr_details.operands[i])
         IN  IF r.ret = None THEN r
             ELSE ParseOperands(r.errors, symtab, instr_details, expected_ops, i + 1,
                                (ValsKey(expected_ops[i]) :> r.ret[1]) @@ vals)

\* vals.get(key, 0)
Field(vals, key) == IF key \in DOMAIN vals THEN vals[key] ELSE 0

_encode_r_type(errs, symtab, instr_details) ==
    LET instr == instr_details.name
        operands == instr_details.operands
        line_num == instr_details.original_line_num
        funct == R_TYPE_FUNCT[instr]
        expected_ops == R_TYPE_FORMATS[instr]
        count_error(expected) ==
            Parsed(_add_error(errs, line_num,
                       <<"Incorrect operand count", instr, expected, Len(operands)>>), None)
    IN  IF instr = "jalr"
        THEN IF Len(operands) = 1
             THEN LET rs == _parse_register(errs, operands[1], line_num)
                  IN  IF rs.ret = None THEN rs
                      ELSE Parsed(rs.errors, Some(RWord(rs.ret[1], 0, 31, 0, funct)))
             ELSE IF Len(operands) = 2
             THEN LET rd == _parse_register(errs, operands[1], line_num)
                      rs == _parse_register(rd.errors, operands[2], line_num)
                  IN  IF rd.ret = None \/ rs.ret = None THEN Parsed(rs.errors, None)
                      ELSE Parsed(rs.errors, Some(RWord(rs.ret[1], 0, rd.ret[1], 0, funct)))
             ELSE count_error("1 or 2")
        ELSE IF Len(operands) # Len(expected_ops) THEN count_error(Len(expected_ops))
        ELSE LET p == ParseOperands(errs, symtab, instr_details, expected_ops, 1, EmptyMap)
             IN  IF p.ret = None THEN p
                 ELSE LET vals == p.ret[1]
                      IN  Parsed(p.errors,
                                 Some(RWord(Field(vals, "rs"), Field(vals, "rt"),
                                            Field(vals, "rd"), Field(vals, "shamt"), funct)))


MemoryOps == {"lw", "sw", "lb", "sb", "lh", "sh", "lbu", "lhu"}

_encode_i_type(errs, symtab, instr_details) ==
    LET instr == instr_details.name
        operands == instr_details.operands
        line_num == instr_details.original_line_num
        opcode == I_TYPE_OPCODE[instr]
        expected_ops == I_TYPE_FORMATS[instr]
    IN  IF /\ Len(operands) # Len(expected_ops)
           /\ ~(instr \in MemoryOps /\ Len(expected_ops) = 3 /\ Len(operands) > 0)
        THEN Parsed(_add_error(errs, line_num,
                        <<"Incorrect operand count", instr, Len(expected_ops), Len(operands)>>),
                    None)
        ELSE LET p == ParseOperands(errs, symtab, instr_details, expected_ops, 1, EmptyMap)
             IN  IF p.ret = None THEN p
                 ELSE LET vals == p.ret[1]
                          rt_val == CASE instr = "bltz" -> 0
                                      [] instr = "bgez" -> 1
                                      [] instr = "bltzal" -> 16
                                      [] instr = "bgezal" -> 17
                                      [] instr \in {"blez", "bgtz"} -> 0
                                      [] OTHER -> Field(vals, "rt")
                      IN  Parsed(p.errors,
                                 Some(IWord(opcode, Field(vals, "rs"), rt_val,
                                            Field(vals, "imm"))))

\* (target_addr >> 2) & 0x03FFFFFF
encoded_addr_part(target_addr) == ((target_addr.h % 4096) * Half + target_addr.l) \div 4

_encode_j_type(errs, symtab, instr_details) ==
    LET instr == instr_details.name
        operands == instr_details.operands
        line_num == instr_details.original_line_num
        opcode == J_TYPE_OPCODE[instr]
        expected_ops == J_TYPE_FORMATS[instr]
    IN  IF Len(operands) # Len(expected_ops)
        THEN Parsed(_add_error(errs, line_num,
                        <<"Incorrect operand count", instr, Len(expected_ops), Len(operands)>>),
                    None)
        ELSE LET target_str == operands[1]
                 target_addr == IF target_str.s \in DOMAIN symtab
                                THEN Some(FromInt(symtab[target_str.s]))
                                ELSE target_str.n
             IN  IF target_addr = None
                 THEN Parsed(_add_error(errs, line_num,
                                 <<"Invalid jump target", target_str.s>>), None)
                 ELSE IF target_addr[1].l % 4 # 0
                 THEN Parsed(_add_error(errs, line_num,
                                 <<"Jump target address is not word-aligned", target_addr[1]>>),
                             None)
                 ELSE Parsed(errs, Some(JWord(opcode, encoded_addr_part(target_addr[1]))))

\* encode_func(instr_details) of pass 2b, for an instruction of the three tables
encode_func(errs, symtab, instr_details) ==
    CASE instr_details.name \in DOMAIN R_TYPE_FUNCT -> _encode_r_type(errs, symtab, instr_details)
      [] instr_details.name \in DOMAIN I_TYPE_OPCODE -> _encode_i_type(errs, symtab, instr_details)
      [] instr_details.name \in DOMAIN J_TYPE_OPCODE -> _encode_j_type(errs, symtab, instr_details)

-----------------------------------------------------------------------------
(* Pass 2a (second_pass, first loop), one parsed line at a time.           *)

\* val.to_bytes(n, byteorder='little', signed=True): None for OverflowError
to_bytes(val, n) == IF PackFits(val, n) THEN Some(PackBytes(val, n)) ELSE None

\* the outcome of one step of a pass: the object, and whether a fault escaped
Passed(a) == [a |-> a, raised |-> FALSE]

RECURSIVE DataValues(_, _, _, _, _, _)
\* the loop over the arguments of .word, .half and .byte
DataValues(a, directive, n, args, i, line_num) ==
    IF i > Len(args) THEN Passed(a)
    ELSE IF args[i].n = None
    THEN DataValues([a EXCEPT !.errors = _add_error(@, line_num,
                         <<"Invalid value for", directive, args[i].s>>)],
                    directive, n, args, i + 1, line_num)
    ELSE LET b == to_bytes(args[i].n[1], n)
         IN  IF b # None
             THEN DataValues([a EXCEPT !.data_segment = @ \o b[1]],
                             directive, n, args, i + 1, line_num)
             ELSE IF directive = ".word"
             THEN [a |-> a, raised |-> TRUE]       \* OverflowError is not caught
             ELSE DataValues([a EXCEPT !.errors = _add_error(@, line_num,
                                  <<"Value out of range for", directive, args[i].n[1]>>)],
                             directive, n, args, i + 1, line_num)

\* a data directive met in the data segment
data_directive(a0, parsed_line) ==
    LET directive == parsed_line.name
        args == parsed_line.operands
        line_num == parsed_line.line_num
        current_data_offset == Len(a0.data_segment)
        expected_data_offset == parsed_line.address - base_data_address
        a == IF current_data_offset < expected_data_offset
             THEN [a0 EXCEPT !.data_segment =
                      @ \o [k \in 1 .. expected_data_offset - current_data_offset |-> 0]]
             ELSE a0
        ascii(terminator) ==
            IF args = <<>> THEN Passed(a)
            ELSE IF \E k \in 1 .. Len(args[1]) : args[1][k] >= 128
            THEN Passed([a EXCEPT !.errors = _add_error(@, line_num,
                             <<"Non-ASCII character in string", directive>>)])
            ELSE Passed([a EXCEPT !.data_segment = @ \o args[1] \o terminator])
    IN  IF current_data_offset > expected_data_offset
        THEN Passed([a0 EXCEPT !.errors = _add_error(@, line_num,
                         <<"Internal Error: Data address mismatch", expected_data_offset,
                           current_data_offset>>)])
        ELSE CASE directive = ".word" -> DataValues(a, directive, 4, args, 1, line_num)
               [] directive = ".byte" -> DataValues(a, directive, 1, args, 1, line_num)
               [] directive = ".half" -> DataValues(a, directive, 2, args, 1, line_num)
               [] directive = ".asciiz" -> ascii(<<0>>)
               [] directive = ".ascii" -> ascii(<<>>)
               [] OTHER -> Passed(a)

\* the base instructions of an instruction line, with the errors recorded
expanded_base_instructions(a, parsed_line) ==
    IF parsed_line.name \in DOMAIN PSEUDO_INSTRUCTIONS
    THEN LET expanded == PSEUDO_HANDLERS(parsed_line, a.symbol_table)
         IN  [errors |-> a.errors,
              list |-> IF expanded = None THEN <<>> ELSE expanded[1],
              own |-> FALSE]
    ELSE IF parsed_line.name \in
               DOMAIN R_TYPE_FUNCT \cup DOMAIN I_TYPE_OPCODE \cup DOMAIN J_TYPE_OPCODE
    THEN [errors |-> a.errors,
          list |-> <<Base(parsed_line.name, parsed_line.operands)>>,
          own |-> TRUE]
    ELSE [errors |-> _add_error(a.errors, parsed_line.line_num,
                                <<"Unknown instruction", parsed_line.name>>),
          list |-> <<>>, own |-> FALSE]

\* the body of the first loop of second_pass for the i-th parsed line
pass2a_line(a, i) ==
    LET parsed_line == a.parsed_lines[i]
    IN  IF parsed_line.type = "directive" /\ parsed_line.name = ".data"
        THEN Passed(IF a.in_data_segment THEN a
                    ELSE [a EXCEPT !.in_data_segment = TRUE,
                                   !.current_address = base_data_address])
        ELSE IF parsed_line.type = "directive" /\ parsed_line.name = ".text"
        THEN Passed(IF ~a.in_data_segment THEN a
                    ELSE [a EXCEPT !.in_data_segment = FALSE,
                                   !.current_address = base_text_address])
        ELSE IF parsed_line.type = "instruction" /\ ~a.in_data_segment
        THEN LET e == expanded_base_instructions(a, parsed_line)
                 n == Len(e.list)
             IN  IF e.errors # <<>> THEN Passed([a EXCEPT !.errors = e.errors])
                 ELSE Passed(
                   [a EXCEPT
                      !.final_instructions = @ \o
                          [k \in 1 .. n |->
                              [name |-> e.list[k].name, operands |-> e.list[k].operands,
                               address |-> a.current_address + 4 * (k - 1),
                               original_line_num |-> parsed_line.line_num]],
                      !.current_address = @ + 4 * n,
                      \* a base instruction is the parsed line's own dictionary
                      !.parsed_lines[i].address =
                          IF e.own THEN a.current_address ELSE @])
        ELSE IF parsed_line.type = "directive" /\ a.in_data_segment
        THEN data_directive(a, parsed_line)
        ELSE Passed(a)

-----------------------------------------------------------------------------
(* The sources given to assemble.                                          *)

T0 == Name("$t0")

T1 == Name("$t1")

\* lines that take no label operand: one word estimated as one, one word
\* estimated as two, two words estimated as two
Fillers ==
    { Instr(None, "add", <<Name("$s0"), Name("$zero"), Name("$zero")>>),
      Instr(None, "li", <<T0, Num(FromInt(5))>>),
      Instr(None, "li", <<T0, HexNum(W(1, 9029))>>) }

\* the branches, the jumps and the pseudo-instructions whose expansion can fail
Subjects ==
    { Instr(None, m, <<T0, T1, Name("end")>>) :
          m \in {"beq", "bne", "blt", "bgt", "ble", "bge"} }
    \cup { Instr(None, m, <<T0, Name("end")>>) :
          m \in {"blez", "bgtz", "bltz", "bgez", "la"} }
    \cup { Instr(None, m, <<Name("end")>>) : m \in {"j", "jal"} }
    \cup { Instr(None, "la", <<T0, Name("nolabel")>>),
           Instr(None, "beq", <<T0, T1, Name("nolabel")>>),
           Instr(None, "move", <<T0>>),
           Instr(None, "li", <<T0, Name("abc")>>),
           Instr(None, "blt", <<T0, T1>>) }

\* the lines of fill with the line s put at position ps
PlaceSubject(fill, s, ps) ==
    [i \in 1 .. Len(fill) + 1 |->
        IF i < ps THEN fill[i] ELSE IF i = ps THEN s ELSE fill[i - 1]]

\* the program p with the label end: in front of its k-th line
Labelled(p, k) == [p EXCEPT ![k].label = Some("end")]

GeneratedPrograms ==
    UNION { { Labelled(PlaceSubject(fill, s, ps), k) :
                fill \in [1 .. n - 1 -> Fillers], s \in Subjects,
                ps \in 1 .. n, k \in 1 .. n } : n \in 1 .. MaxLines }

\* loop: beq $t0,$t1,end / addi $t0,$t0,1 / j loop / end: add $s0,$zero,$zero
BeqLoopProgram ==
    << Instr(Some("loop"), "beq", <<T0, T1, Name("end")>>),
       Instr(None, "addi", <<T0, T0, Num(FromInt(1))>>),
       Instr(None, "j", <<Name("loop")>>),
       Instr(Some("end"), "add", <<Name("$s0"), Name("$zero"), Name("$zero")>>) >>

\* beq $zero, $zero, target / .space 0x40000 / target: nop
BranchTooFarProgram ==
    << Instr(None, "beq", <<Name("$zero"), Name("$zero"), Name("target")>>),
       Directive(None, ".space", <<HexNum(W(4, 0))>>),
       Instr(Some("target"), "nop", <<>>) >>

\* .data / target: .word 1 / .text / nop / beq $zero, $zero, target / nop
FarDataLabelProgram ==
    << Directive(None, ".data", <<>>),
       Directive(Some("target"), ".word", <<Num(FromInt(1))>>),
       Directive(None, ".text", <<>>),
       Instr(None, "nop", <<>>),
       Instr(None, "beq", <<Name("$zero"), Name("$zero"), Name("target")>>),
       Instr(None, "nop", <<>>) >>

\* .data / .word 1 / .space 4
TrailingSpaceProgram ==
    << Directive(None, ".data", <<>>),
       Directive(None, ".word", <<Num(FromInt(1))>>),
       Directive(None, ".space", <<Num(FromInt(4))>>) >>

\* .data / .byte 1 / .align 2 / .space 2 / .half 2
GapsProgram ==
    << Directive(None, ".data", <<>>),
       Directive(None, ".byte", <<Num(FromInt(1))>>),
       Directive(None, ".align", <<Num(FromInt(2))>>),
       Directive(None, ".space", <<Num(FromInt(2))>>),
       Directive(None, ".half", <<Num(FromInt(2))>>) >>

\* nop / .data / .text / beq $zero, $zero, end / nop / end: nop
SwitchBackProgram ==
    << Instr(None, "nop", <<>>),
       Directive(None, ".data", <<>>),
       Directive(None, ".text", <<>>),
       Instr(None, "beq", <<Name("$zero"), Name("$zero"), Name("end")>>),
       Instr(None, "nop", <<>>),
       Instr(Some("end"), "nop", <<>>) >>

\* label1: nop / label1: addi $t0, $t0, 1
DuplicateLabelProgram ==
    << Instr(Some("label1"), "nop", <<>>),
       Instr(Some("label1"), "addi", <<T0, T0, Num(FromInt(1))>>) >>

\* the immediates of li: the ends of the ranges of its four expansions, in
\* decimal, and some wide values written in hex
LiImmediates ==
    { Num(W(-32768, 0)), Num(FromInt(-65536)), Num(FromInt(-32769)),
      Num(FromInt(-32768)), Num(FromInt(-1)), Num(Zero), Num(FromInt(32767)),
      Num(FromInt(32768)), Num(FromInt(65535)), Num(W(1, 0)), Num(W(1, 1)),
      Num(W(32767, 65535)), Num(W(32768, 0)), HexNum(W(57005, 48879)),
      HexNum(W(65535, 0)), Num(W(65535, 65535)) }

\* li rd, imm
LiPrograms ==
    { << Instr(None, "li", <<Name(rd), imm>>) >> :
          rd \in {"$at", "$t0", "$31"}, imm \in LiImmediates }

FixedPrograms ==
    { BeqLoopProgram, BranchTooFarProgram, FarDataLabelProgram,
      TrailingSpaceProgram, GapsProgram, DuplicateLabelProgram, SwitchBackProgram,
      \* .data / x: .word 1, -2 / s: .asciiz "A" / .text / la $t0, x / lw $t1, 0($t0)
      << Directive(None, ".data", <<>>),
         Directive(Some("x"), ".word", <<Num(FromInt(1)), Num(FromInt(-2))>>),
         Directive(Some("s"), ".asciiz", <<(<<65>>)>>),
         Directive(None, ".text", <<>>),
         Instr(None, "la", <<T0, Name("x")>>),
         Instr(None, "lw", <<T1, Num(Zero), T0>>) >>,
      \* .data / .word 0xdeadbeef
      << Directive(None, ".data", <<>>),
         Directive(None, ".word", <<HexNum(W(57005, 48879))>>) >>,
      \* x: / x: frob $t0 / .word 1 / .data / add $t0,$t0,$t0
      << Line("label_only", Some("x"), "", <<>>),
         Instr(Some("x"), "frob", <<T0>>),
         Directive(None, ".word", <<Num(FromInt(1))>>),
         Directive(None, ".data", <<>>),
         Instr(None, "add", <<T0, T0, T0>>) >>,
      \* jalr $t0 / lw $t0
      << Instr(None, "jalr", <<T0>>),
         Instr(None, "lw", <<T0>>) >>,
      \* sll $t0,$t1,40
      << Instr(None, "sll", <<T0, T1, Num(FromInt(40))>>) >> }

Programs == GeneratedPrograms \cup FixedPrograms \cup LiPrograms

-----------------------------------------------------------------------------
(* assemble(), step by step: the clearing at its start, pass 1 line by     *)
(* line, pass 2a parsed line by parsed line, pass 2b base instruction by   *)
(* base instruction.  When phase is "done" the call has returned           *)
(* assemble_result.                                                        *)

\* what assemble returns: "0x%08x" of each word, the errors, the data bytes
assemble_result ==
    [machine_code |-> HexList(machine_code), errors |-> errors,
     data_segment |-> asm_data_segment]

AsmInit ==
    /\ symbol_table = EmptyMap
    /\ asm_data_segment = <<>>
    /\ current_address = 0
    /\ parsed_lines = <<>>
    /\ machine_code = <<>>
    /\ errors = <<>>
    /\ in_data_segment = FALSE
    /\ final_instructions = <<>>
    /\ source = <<>>
    /\ phase = "idle"
    /\ idx = 0
    /\ assembled = <<>>

\* assemble() clears every field, so what follows depends on the source
\* alone: an instance that has assembled before is given the fixed sources
Assemble ==
    /\ phase \in {"idle", "done"}
    /\ Len(assembled) < MaxRuns
    /\ \E p \in IF phase = "idle" THEN Programs ELSE FixedPrograms :
        /\ source' = p
        /\ CommitAsm(Cleared)
        /\ phase' = "first_pass"
        /\ idx' = 1
    /\ assembled' = IF phase = "done" /\ source \in FixedPrograms
                    THEN Append(assembled, [source |-> source, result |-> assemble_result])
                    ELSE assembled
    /\ UNCHANGED <<simvars, auxvars, disvars>>

FirstPassLine ==
    /\ phase = "first_pass"
    /\ idx <= Len(source)
    /\ CommitAsm(first_pass_line(Asm, source[idx], idx))
    /\ idx' = idx + 1
    /\ UNCHANGED <<source, phase, assembled, simvars, auxvars, disvars>>

SecondPassBegin ==
    /\ phase = "first_pass"
    /\ idx > Len(source)
    /\ CommitAsm([Asm EXCEPT !.final_instructions = <<>>, !.machine_code = <<>>,
                             !.data_segment = <<>>,
                             !.current_address = base_text_address,
                             !.in_data_segment = FALSE])
    /\ phase' = "pass2a"
    /\ idx' = 1
    /\ UNCHANGED <<source, assembled, simvars, auxvars, disvars>>

\* a fault that escapes second_pass is recorded by assemble, which returns
Pass2aLine ==
    /\ phase = "pass2a"
    /\ idx <= Len(parsed_lines)
    /\ LET r == pass2a_line(Asm, idx)
       IN  IF r.raised
           THEN /\ CommitAsm([r.a EXCEPT !.errors =
                                 _add_error(@, 0, <<"An unexpected internal error">>)])
                /\ phase' = "done"
                /\ idx' = idx
           ELSE /\ CommitAsm(r.a)
                /\ phase' = phase
                /\ idx' = idx + 1
    /\ UNCHANGED <<source, assembled, simvars, auxvars, disvars>>

Pass2aEnd ==
    /\ phase = "pass2a"
    /\ idx > Len(parsed_lines)
    /\ phase' = IF errors # <<>> THEN "done" ELSE "pass2b"
    /\ idx' = 1
    /\ machine_code' = <<>>
    /\ UNCHANGED <<symbol_table, asm_data_segment, current_address, parsed_lines,
                   errors, in_data_segment, final_instructions, source,
                   assembled, simvars, auxvars, disvars>>

\* a variant of the loop body of pass 2b that appends a placeholder word for
\* the instruction that fails to encode
Pass2bInstructionWithPlaceholder ==
    /\ phase = "pass2b"
    /\ idx <= Len(final_instructions)
    /\ LET instr_details == final_instructions[idx]
           r == encode_func(errors, symbol_table, instr_details)
       IN  IF r.raised \/ r.ret = None
           THEN /\ errors' = IF r.raised
                             THEN _add_error(r.errors, instr_details.original_line_num,
                                      <<"Internal error encoding instruction", instr_details.name>>)
                             ELSE r.errors
                /\ machine_code' = Append(machine_code, Zero)
                /\ phase' = "done"
                /\ UNCHANGED idx
           ELSE /\ errors' = r.errors
                /\ machine_code' = Append(machine_code, r.ret[1])
                /\ idx' = idx + 1
                /\ phase' = phase
    /\ UNCHANGED <<symbol_table, asm_data_segment, current_address, parsed_lines,
                   in_data_segment, final_instructions, source, assembled,
                   simvars, auxvars, disvars>>

Pass2bInstruction ==
    /\ phase = "pass2b"
    /\ idx <= Len(final_instructions)
    /\ LET instr_details == final_instructions[idx]
           r == encode_func(errors, symbol_table, instr_details)
       IN  IF r.raised
           THEN /\ errors' = _add_error(r.errors, instr_details.original_line_num,
                                 <<"Internal error encoding instruction", instr_details.name>>)
                /\ phase' = "done"
                /\ UNCHANGED <<machine_code, idx>>
           ELSE IF r.ret = None
           THEN /\ errors' = r.errors
                /\ phase' = "done"
                /\ UNCHANGED <<machine_code, idx>>
           ELSE /\ errors' = r.errors
                /\ machine_code' = Append(machine_code, r.ret[1])
                /\ idx' = idx + 1
                /\ phase' = phase
    /\ UNCHANGED <<symbol_table, asm_data_segment, current_address, parsed_lines,
                   in_data_segment, final_instructions, source, assembled,
                   simvars, auxvars, disvars>>

Pass2bEnd ==
    /\ phase = "pass2b"
    /\ idx > Len(final_instructions)
    /\ phase' = "done"
    /\ UNCHANGED <<symbol_table, asm_data_segment, current_address, parsed_lines,
                   machine_code, errors, in_data_segment, final_instructions,
                   source, idx, assembled, simvars, auxvars, disvars>>

NextAsm ==
    \/ Assemble
    \/ FirstPassLine
    \/ SecondPassBegin
    \/ Pass2aLine
    \/ Pass2aEnd
    \/ Pass2bInstruction
    \/ Pass2bEnd

-----------------------------------------------------------------------------
(* The disassembler (mips_disassembler.py) and its reverse tables          *)
(* (mips_consts.py).  A line of assembly text is held as the assembler     *)
(* holds a parsed one: the mnemonic and the list of operand tokens, a      *)
(* numeral being held by its value and its base.                           *)

\* one symbolic name per register number, $zero for number 0
REGISTER_MAP_REV ==
    [n \in 0 .. 31 |->
        << "$zero", "$at", "$v0", "$v1", "$a0", "$a1", "$a2", "$a3",
           "$t0", "$t1", "$t2", "$t3", "$t4", "$t5", "$t6", "$t7",
           "$s0", "$s1", "$s2", "$s3", "$s4", "$s5", "$s6", "$s7",
           "$t8", "$t9", "$k0", "$k1", "$gp", "$sp", "$fp", "$ra" >>[n + 1]]

\* {v: k for k, v in table.items()}, the values of table being distinct
Reversed(table) ==
    [v \in {table[k] : k \in DOMAIN table} |->
        CHOOSE k \in DOMAIN table : table[k] = v]

RegimmMnemonics == {"bltz", "bgez", "bltzal", "bgezal"}

OPCODE_MAP_REV ==
    (0 :> "R-type") @@ (1 :> "REGIMM") @@
    Reversed([k \in DOMAIN I_TYPE_OPCODE \ RegimmMnemonics |-> I_TYPE_OPCODE[k]]) @@
    Reversed(J_TYPE_OPCODE)

FUNCT_MAP_REV == Reversed(R_TYPE_FUNCT)

REGIMM_RT_MAP_REV == (0 :> "bltz") @@ (1 :> "bgez") @@ (16 :> "bltzal") @@ (17 :> "bgezal")

\* table.get(key), None when the key is missing
Get(table, key) == IF key \in DOMAIN table THEN Some(table[key]) ELSE None

_get_reg_name(reg_num) ==
    IF reg_num \in DOMAIN REGISTER_MAP_REV THEN Name(REGISTER_MAP_REV[reg_num])
    ELSE Name("$?")

\* a variant that leaves the immediate as it is
_sign_extend_imm_bits_never(imm, bits) == imm

\* MipsDisassembler._sign_extend_imm(imm, bits)
_sign_extend_imm_bits(imm, bits) ==
    IF (imm \div 2 ^ (bits - 1)) % 2 # 0 THEN imm - 2 ^ bits ELSE imm

\* what disassemble_instruction leaves in self.errors and what it returns
Disassembled(errs, r) == [errors |-> errs, ret |-> r]

\* pc + 4 + (signed_imm * 4), written with the 0x prefix
branch_target(pc_arg, signed_imm) == HexNum(FromInt(pc_arg + 4 + signed_imm * 4))

\* (addr << 2) | (pc & 0xF0000000), written with the 0x prefix
target_addr(addr, pc_arg) ==
    HexNum(FromInt(addr * 4 + ((pc_arg \div 2 ^ 28) % 16) * 2 ^ 28))

\* machine_code_int is None for an argument that is no int, and the word
\* otherwise; errors is emptied first whatever the argument is
disassemble_instruction(machine_code_int, pc_arg) ==
    IF machine_code_int = None
    THEN Disassembled(<<[message |-> <<"Invalid machine code format, expected integer">>]>>,
                      Base("Error: Invalid input type", <<>>))
    ELSE
    LET word == machine_code_int[1]
        opcode == (word.h \div 1024) % 64
        rs == (word.h \div 32) % 32
        rt == word.h % 32
        rd == word.l \div 2048
        shamt == (word.l \div 64) % 32
        funct == word.l % 64
        imm == word.l
        addr == (word.h % 1024) * Half + word.l
        rs_name == _get_reg_name(rs)
        rt_name == _get_reg_name(rt)
        rd_name == _get_reg_name(rd)
        signed_imm == Num(FromInt(_sign_extend_imm_bits(imm, 16)))
        unsigned_imm == Num(FromInt(imm))
        hex_imm == HexNum(FromInt(imm))
        r_type ==
            LET m == Get(FUNCT_MAP_REV, funct)
                mnemonic == m[1]
            IN  IF word = Zero THEN Base("nop", <<>>)
                ELSE IF m = None THEN Base("Unknown R-type", <<HexNum(FromInt(funct))>>)
                ELSE IF mnemonic \in {"syscall", "break"} THEN Base(mnemonic, <<>>)
                ELSE IF mnemonic \in {"add", "addu", "sub", "subu", "and", "or", "xor",
                                      "nor", "slt", "sltu"}
                THEN Base(mnemonic, <<rd_name, rs_name, rt_name>>)
                ELSE IF mnemonic \in {"sllv", "srlv", "srav"}
                THEN Base(mnemonic, <<rd_name, rt_name, rs_name>>)
                ELSE IF mnemonic \in {"sll", "srl", "sra"}
                THEN Base(mnemonic, <<rd_name, rt_name, Num(FromInt(shamt))>>)
                ELSE IF mnemonic = "jr" THEN Base("jr", <<rs_name>>)
                ELSE IF mnemonic = "jalr"
                THEN IF rd = 31 THEN Base("jalr", <<rs_name>>)
                     ELSE Base("jalr", <<rd_name, rs_name>>)
                ELSE IF mnemonic \in {"mthi", "mtlo"} THEN Base(mnemonic, <<rs_name>>)
                ELSE IF mnemonic \in {"mfhi", "mflo"} THEN Base(mnemonic, <<rd_name>>)
                ELSE IF mnemonic \in {"mult", "multu", "div", "divu"}
                THEN Base(mnemonic, <<rs_name, rt_name>>)
                ELSE Base(mnemonic, <<Name("RType"), Num(FromInt(rd)), Num(FromInt(rs)),
                                      Num(FromInt(rt)), Num(FromInt(shamt))>>)
        j_type == Base(OPCODE_MAP_REV[opcode], <<target_addr(addr, pc_arg)>>)
        regimm ==
            LET m == Get(REGIMM_RT_MAP_REV, rt)
            IN  IF m # None
                THEN Base(m[1], <<rs_name,
                                  branch_target(pc_arg, _sign_extend_imm_bits(imm, 16))>>)
                ELSE Base("Unknown REGIMM instruction", <<Num(FromInt(rt))>>)
        i_type ==
            LET m == Get(OPCODE_MAP_REV, opcode)
                mnemonic == m[1]
            IN  IF m = None
                THEN Base("Unknown Instruction", <<HexNum(FromInt(opcode))>>)
                ELSE IF mnemonic \in {"addi", "slti", "addiu"}
                THEN Base(mnemonic, <<rt_name, rs_name, signed_imm>>)
                ELSE IF mnemonic = "sltiu"
                THEN Base(mnemonic, <<rt_name, rs_name, unsigned_imm>>)
                ELSE IF mnemonic \in {"andi", "ori", "xori"}
                THEN Base(mnemonic, <<rt_name, rs_name, hex_imm>>)
                ELSE IF mnemonic = "lui" THEN Base("lui", <<rt_name, hex_imm>>)
                ELSE IF mnemonic \in MemoryOps
                THEN Base(mnemonic, <<rt_name, signed_imm, rs_name>>)
                ELSE IF mnemonic \in {"beq", "bne"}
                THEN Base(mnemonic, <<rs_name, rt_name,
                                      branch_target(pc_arg, _sign_extend_imm_bits(imm, 16))>>)
                ELSE IF mnemonic \in {"blez", "bgtz"}
                THEN Base(mnemonic, <<rs_name,
                                      branch_target(pc_arg, _sign_extend_imm_bits(imm, 16))>>)
                ELSE Base(mnemonic, <<Name("IType"), Num(FromInt(rs)), Num(FromInt(rt)),
                                      hex_imm>>)
    IN  Disassembled(<<>>,
            CASE opcode = 0 -> r_type
              [] opcode \in {J_TYPE_OPCODE[k] : k \in DOMAIN J_TYPE_OPCODE} -> j_type
              [] opcode = 1 -> regimm
              [] OTHER -> i_type)

-----------------------------------------------------------------------------
(* disassemble.  A text is a sequence of character codes: 0..15 are the    *)
(* digits 0-9 and the letters a-f, NotHex is a character that is none of   *)
(* those, and the codes below are the blank, the letter x and the capital  *)
(* letters A-F and X.                                                      *)

Space == 17
LetterX == 18
Capital(c) == c + 16

\* str.lower() of one character
lower(c) == IF c \in {Capital(k) : k \in (10 .. 15) \cup {LetterX}} THEN c - 16 ELSE c

\* str.strip(): the text without its leading and trailing blanks
strip(t) ==
    LET kept == {i \in 1 .. Len(t) : t[i] # Space}
        first == CHOOSE i \in kept : \A j \in kept : i <= j
        last == CHOOSE i \in kept : \A j \in kept : j <= i
    IN  IF kept = {} THEN <<>> ELSE SubSeq(t, first, last)

\* hex_line.startswith("0x")
startswith_0x(t) == Len(t) >= 2 /\ t[1] = 0 /\ t[2] = LetterX

\* the line "Error line N: <what>"
ErrorLine(line_num, what) == Base("Error line", <<Num(FromInt(line_num)), Name(what)>>)

RECURSIVE DisassembleLines(_, _, _, _, _)
\* the loop of disassemble over machine_code_hex_lines, entry i (from 1)
\* being next: self.errors, the lines made so far and the pc of the next word
DisassembleLines(errs, lines, i, assembly_lines, current_pc) ==
    IF i > Len(lines) THEN [errors |-> errs, assembly_lines |-> assembly_lines]
    ELSE
    LET line_num == i
        stripped == LET s == strip(lines[i]) IN [k \in 1 .. Len(s) |-> lower(s[k])]
        hex_line == IF startswith_0x(stripped) THEN SubSeq(stripped, 3, Len(stripped))
                    ELSE stripped
        ValueError(what) ==
            DisassembleLines(
                Append(errs, [line |-> line_num,
                              message |-> <<"Invalid hex format/value", what, hex_line>>]),
                lines, i + 1,
                Append(assembly_lines, ErrorLine(line_num, "Invalid hex input")),
                current_pc)
    IN  IF stripped = <<>>
        THEN DisassembleLines(errs, lines, i + 1, assembly_lines, current_pc)
        ELSE IF Len(hex_line) > 8 THEN ValueError("Invalid hex length")
        ELSE IF \E k \in 1 .. Len(hex_line) : hex_line[k] \notin 0 .. 15
        THEN ValueError("Invalid hex character found")
        ELSE LET machine_code_int == HexValue(hex_line, Zero)
                 d == disassemble_instruction(Some(machine_code_int), current_pc)
             IN  DisassembleLines(
                     d.errors, lines, i + 1,
                     Append(assembly_lines,
                            IF d.errors # <<>>
                            THEN ErrorLine(line_num, d.errors[Len(d.errors)].message[1])
                            ELSE d.ret),
                     current_pc + 4)

\* "\n".join(assembly_lines), held as the lines of the text: the empty text
\* is one empty line
join(assembly_lines) ==
    IF assembly_lines = <<>> THEN <<Base("", <<>>)>> ELSE assembly_lines

\* current_pc at the first entry
current_pc_start == 4194304       \* 0x00400000

\* what disassemble leaves in self.errors and the dictionary it returns
disassemble(lines) ==
    LET r == DisassembleLines(<<>>, lines, 1, <<>>, current_pc_start)
    IN  [errors |-> r.errors,
         ret |-> [assembly_code |-> join(r.assembly_lines), errors |-> r.errors]]

-----------------------------------------------------------------------------
(* The inputs of the disassembler and of the encoders.                     *)

MaxEntries == 3

\* the eight hex digits of a word, and the same after "0x"
Digits(w) == Hex8(w).d

Prefixed(t) == <<0, LetterX>> \o t

DisTexts ==
    { Prefixed(Digits(Zero)),                                 \* "0x00000000"
      <<0, 1, 2, Capital(10), 4, 0, 2, 0>>,                   \* "012A4020"
      <<12>>,                                                 \* "c"
      <<>>,                                                   \* ""
      <<Space, Space>>,                                       \* "  "
      <<NotHex, NotHex>>,                                     \* "zz"
      <<1, 2, 3, 4, 5, 6, 7, 8, 9>>,                          \* "123456789"
      <<Space>> \o Prefixed(Digits(IWord(35, 29, 8, 0))) \o <<Space>>,  \* " 0x8fa80000 "
      <<0, Capital(LetterX), 1, 0, 0, 0, 15, 15, 15, 14>> }   \* "0X1000FFFE"

DisInputs == UNION { [1 .. n -> DisTexts] : n \in 0 .. MaxEntries }

\* the inputs given to a disassembler that has been used before
FixedDisInputs ==
    { <<>>, << <<NotHex, NotHex>>, Prefixed(Digits(Zero)) >>,
      << <<>>, Prefixed(Digits(Zero)) >> }

\* an entry of final_instructions
Details(name, operands, address) ==
    [name |-> name, operands |-> operands, original_line_num |-> 1, address |-> address]

EncRegs == {Name("$zero"), Name("$t0"), Name("$9"), Name("$ra")}

EncShamts == {Num(FromInt(0)), Num(FromInt(1)), Num(FromInt(31)), Num(FromInt(32))}

EncImms ==
    { Num(FromInt(-32769)), Num(FromInt(-32768)), Num(FromInt(-1)), Num(Zero),
      HexNum(FromInt(5)), Num(FromInt(32767)), Num(FromInt(32768)),
      HexNum(FromInt(65535)), Num(FromInt(65536)) }

EncAddresses == {base_text_address, base_text_address + 16}

\* the symbol tables of the encoders: the label L at, before, after and far
\* from the instruction, and off the word grid
EncTables ==
    { "L" :> a : a \in { base_text_address, base_text_address + 16,
                         base_text_address + 20, base_text_address + 18,
                         base_text_address + 131088, base_text_address + 131092,
                         base_data_address } }

\* the operand lists of a format, the label of a branch or a jump being L
RECURSIVE OperandLists(_)
OperandLists(format) ==
    IF format = <<>> THEN {<<>>}
    ELSE LET tokens == CASE Head(format) \in {"rd", "rs", "rt"} -> EncRegs
                         [] Head(format) = "shamt" -> EncShamts
                         [] Head(format) = "imm" -> EncImms
                         [] OTHER -> {Name("L")}
         IN  {<<t>> \o rest : t \in tokens, rest \in OperandLists(Tail(format))}

FORMATS == R_TYPE_FORMATS @@ I_TYPE_FORMATS @@ J_TYPE_FORMATS

\* the format takes a label, so that the address and the table matter
TakesLabel(format) == \E i \in 1 .. Len(format) : format[i] \in {"label", "target"}

EncodeInputs ==
    UNION { { [details |-> Details(m, ops, a), symtab |-> st] :
                ops \in OperandLists(FORMATS[m]),
                a \in IF TakesLabel(FORMATS[m]) THEN EncAddresses ELSE {base_text_address},
                st \in IF TakesLabel(FORMATS[m]) THEN EncTables ELSE {EmptyMap} } :
            m \in DOMAIN FORMATS }
    \cup { [details |-> Details("jalr", <<r>>, base_text_address), symtab |-> EmptyMap] :
             r \in EncRegs }

\* the instructions given to encoders that have been used before
FixedEncodeInputs ==
    { [details |-> Details("beq", <<Name("$t0"), Name("$9"), Name("L")>>, base_text_address + 16),
       symtab |-> "L" :> base_text_address],
      [details |-> Details("sll", <<Name("$zero"), Name("$zero"), Num(Zero)>>,
                           base_text_address),
       symtab |-> EmptyMap] }

\* the words and the pcs given to disassemble_instruction apart from the
\* words the encoders made: no int, an unknown funct, the unknown opcode
\* 0x3f, an unknown REGIMM rt, bgezal with a negative offset, j
DecodeInputs ==
    { [machine_code_int |-> None, pc |-> current_pc_start],
      [machine_code_int |-> Some(RWord(0, 0, 0, 0, 63)), pc |-> current_pc_start],
      [machine_code_int |-> Some(IWord(63, 0, 0, 0)), pc |-> current_pc_start],
      [machine_code_int |-> Some(IWord(1, 8, 5, 0)), pc |-> current_pc_start],
      [machine_code_int |-> Some(IWord(1, 8, 17, 65534)), pc |-> current_pc_start + 8],
      [machine_code_int |-> Some(JWord(2, 1048576)), pc |-> current_pc_start + 4] }

-----------------------------------------------------------------------------
(* The calls on the disassembler and on the encoders.  Every one of them   *)
(* starts from nothing an earlier call left: disassemble and               *)
(* disassemble_instruction empty self.errors first, and the encoders read  *)
(* the instruction and the symbol table only.  The large sets of inputs    *)
(* are therefore drawn for a disassembler that has not been used, and the  *)
(* small ones afterwards.                                                  *)

DisCall(op, lines, machine_code_int, pc_arg) ==
    [op |-> op, lines |-> lines, machine_code_int |-> machine_code_int, pc |-> pc_arg]

DisInit ==
    /\ dis_errors = <<>>
    /\ dcall = DisCall("__init__", <<>>, None, 0)
    /\ dret = [kind |-> "none", v |-> 0]
    /\ encoded = None

Disassemble ==
    \E lines \in IF dcall.op = "__init__" /\ encoded = None THEN DisInputs
                 ELSE FixedDisInputs :
        LET r == disassemble(lines)
        IN  /\ dis_errors' = r.errors
            /\ dcall' = DisCall("disassemble", lines, None, 0)
            /\ dret' = [kind |-> "dict", v |-> r.ret]
            /\ UNCHANGED <<encoded, simvars, auxvars, asmvars>>

DisassembleInstruction ==
    \E arg \in DecodeInputs \cup
              { [machine_code_int |-> encoded[e].word, pc |-> encoded[e].details.address] :
                    e \in {k \in DOMAIN encoded : encoded[k].word # None} } :
        LET r == disassemble_instruction(arg.machine_code_int, arg.pc)
        IN  /\ dis_errors' = r.errors
            /\ dcall' = DisCall("disassemble_instruction", <<>>, arg.machine_code_int, arg.pc)
            /\ dret' = [kind |-> "str", v |-> r.ret]
            /\ UNCHANGED <<encoded, simvars, auxvars, asmvars>>

\* encode_func applied to one instruction and one symbol table
EncodeInstruction ==
    \E arg \in IF dcall.op = "__init__" /\ encoded = None THEN EncodeInputs
              ELSE FixedEncodeInputs :
        LET r == encode_func(<<>>, arg.symtab, arg.details)
        IN  /\ ~r.raised
            /\ encoded' = Some([details |-> arg.details, symtab |-> arg.symtab,
                                word |-> r.ret, errors |-> r.errors])
            /\ UNCHANGED <<dis_errors, dcall, dret, simvars, auxvars, asmvars>>

NextDis ==
    \/ Disassemble
    \/ DisassembleInstruction
    \/ EncodeInstruction

-----------------------------------------------------------------------------
(* The calls.                                                              *)

\* a call, with the state tag of the object it was made on; input is the
\* code, the data and the bases given to load_program
Call(op, address, value, num_bytes) ==
    [op |-> op, address |-> address, value |-> value, num_bytes |-> num_bytes,
     prior |-> state, input |-> None]

Ret(kind, v) == [kind |-> kind, v |-> v]

SimInit ==
    /\ registers = Fresh.registers
    /\ pc = Fresh.pc
    /\ hi = Fresh.hi
    /\ lo = Fresh.lo
    /\ memory = Fresh.memory
    /\ instructions = Fresh.instructions
    /\ instruction_map = Fresh.instruction_map
    /\ text_segment = Fresh.text_segment
    /\ data_segment = Fresh.data_segment
    /\ text_base = Fresh.text_base
    /\ data_base = Fresh.data_base
    /\ state = Fresh.state
    /\ error_message = Fresh.error_message
    /\ exit_code = Fresh.exit_code
    /\ termination_reason = Fresh.termination_reason
    /\ persistent_output = Fresh.persistent_output
    /\ output_buffer = Fresh.output_buffer
    /\ input_needed = Fresh.input_needed
    /\ input_buffer = Fresh.input_buffer
    /\ program_break = Fresh.program_break
    /\ call = [op |-> "__init__", address |-> Zero, value |-> Zero, num_bytes |-> 0,
               prior |-> "idle", input |-> None]
    /\ ret = Ret("none", 0)
    /\ nSteps = 0
    /\ nMem = 0

Init == SimInit /\ AsmInit /\ DisInit

Reset ==
    /\ Commit(reset(Self))
    /\ call' = Call("reset", Zero, Zero, 0)
    /\ ret' = Ret("none", 0)
    /\ nSteps' = 0
    /\ nMem' = 0
    /\ UNCHANGED <<asmvars, disvars>>

LoadProgram ==
    /\ \E i \in IF state = "idle" THEN LoadInputs ELSE ReloadInputs :
        LET r == LoadOutcome[i]
        IN  /\ Commit(r.s)
            /\ call' = [Call("load_program", i.base_text, i.base_data, 0)
                           EXCEPT !.input = Some(i)]
            /\ ret' = IF r.raised THEN Ret("raised", 0) ELSE Ret("bool", r.ret)
    /\ nSteps' = 0
    /\ nMem' = 0
    /\ UNCHANGED <<asmvars, disvars>>

Step ==
    /\ nSteps < MaxSteps
    /\ LET r == step(Self)
       IN  /\ Commit(r.s)
           /\ ret' = IF r.raised THEN Ret("raised", 0) ELSE Ret("snapshot", 0)
    /\ call' = Call("step", Zero, Zero, 0)
    /\ nSteps' = nSteps + 1
    /\ nMem' = nMem
    /\ UNCHANGED <<asmvars, disvars>>

GetState ==
    /\ Commit(Self)
    /\ call' = Call("get_state", Zero, Zero, 0)
    /\ ret' = Ret("snapshot", 0)
    /\ UNCHANGED <<nSteps, nMem>>
    /\ UNCHANGED <<asmvars, disvars>>

ReadMemory ==
    /\ nMem < MaxMem
    /\ \E address \in MemAddresses, num_bytes \in Sizes :
        LET r == read_memory(Self, address, num_bytes)
        IN  /\ Commit(r.s)
            /\ call' = Call("read_memory", address, Zero, num_bytes)
            /\ ret' = Ret("int", r.ret)
    /\ nMem' = nMem + 1
    /\ nSteps' = nSteps
    /\ UNCHANGED <<asmvars, disvars>>

ReadMemoryUnsigned ==
    /\ nMem < MaxMem
    /\ \E address \in MemAddresses, num_bytes \in Sizes :
        LET r == read_memory_unsigned(Self, address, num_bytes)
        IN  /\ Commit(r.s)
            /\ call' = Call("read_memory_unsigned", address, Zero, num_bytes)
            /\ ret' = Ret("int", r.ret)
    /\ nMem' = nMem + 1
    /\ nSteps' = nSteps
    /\ UNCHANGED <<asmvars, disvars>>

WriteMemory ==
    /\ nMem < MaxMem
    /\ \E address \in MemAddresses, value \in MemValues, num_bytes \in Sizes :
        LET r == write_memory(Self, address, value, num_bytes)
        IN  /\ Commit(r.s)
            /\ call' = Call("write_memory", address, value, num_bytes)
            /\ ret' = Ret("bool", r.ret)
    /\ nMem' = nMem + 1
    /\ nSteps' = nSteps
    /\ UNCHANGED <<asmvars, disvars>>

Next ==
    \/ Reset
    \/ LoadProgram
    \/ Step
    \/ GetState
    \/ ReadMemory
    \/ ReadMemoryUnsigned
    \/ WriteMemory

Spec == Init /\ [][Next]_vars

\* the assembler alone
SpecAsm == Init /\ [][NextAsm]_vars

\* the disassembler and the encoders alone
SpecDis == Init /\ [][NextDis]_vars

-----------------------------------------------------------------------------
(* Properties of the simulator.                                            *)

\* the word step is about to execute, when there is one
Fetches ==
    /\ state \in Steppable
    /\ pc.l % 4 = 0
    /\ pc \in DOMAIN instruction_map
    /\ instruction_map[pc] < Len(instructions)

Fetched == Decode(instructions[instruction_map[pc] + 1])

\* the word step has just executed, when pc has moved on by 4 from it
Executed == Decode(instructions[instruction_map[BAddInt(pc, -4)] + 1])

\* C1: in every reachable state register 0 holds 0, also right after a step
\* whose instruction names register 0 as its destination.
C1_ZeroRegister == registers[0] = Zero

\* a step has executed addiu $zero,$zero,5
C1_Witness ==
    /\ call.op = "step"
    /\ state = "paused"
    /\ BAddInt(pc, -4) \in DOMAIN instruction_map
    /\ instruction_map[BAddInt(pc, -4)] < Len(instructions)
    /\ Executed.opcode = 9 /\ Executed.rt = 0 /\ Executed.imm = 5

\* the effective address of the lw or sw about to execute
EffectiveAddress ==
    Mask32(BAddInt(registers[Fetched.rs], Fetched.imm_signed))

\* C4: for every 32-bit value in rt and every aligned effective address, a
\* step of sw leaves the state paused with no error and the word in memory,
\* and a step of lw leaves the state paused with no error and the word of
\* memory in rt, so that sw followed by lw gives the value back.
C4_SwLwRoundTrip ==
    [][(call'.op = "step" /\ Fetches /\ Fetched.opcode \in {35, 43}
            /\ EffectiveAddress.l % 4 = 0)
        => /\ state' = "paused"
           /\ error_message' = None
           /\ Fetched.opcode = 43 =>
                UnpackUnsigned(MemBytes(memory', EffectiveAddress, 4))
                    = registers[Fetched.rt]
           /\ (Fetched.opcode = 35 /\ Fetched.rt # 0) =>
                registers'[Fetched.rt]
                    = UnpackUnsigned(MemBytes(memory, EffectiveAddress, 4))]_vars

\* C6: once the state is finished or error, only reset and load_program
\* change the state tag.
C6_TerminalStates ==
    [][(state \in {"finished", "error"} /\ call'.op \notin {"reset", "load_program"})
        => state' = state]_vars

\* the fields C7 names
C7_Fields == <<pc, registers, hi, lo, memory, persistent_output, state,
               error_message, exit_code, termination_reason>>

\* C7: a step called while the state is idle, finished or error changes none
\* of pc, registers, hi, lo, memory, output, state, error message, exit code
\* and termination reason.
C7_StepIsNoOp ==
    [][(call'.op = "step" /\ state \in {"idle", "finished", "error"})
        => UNCHANGED C7_Fields]_vars

\* a third step on a two-word program that exited at its second step
C7_Witness ==
    /\ call.op = "step"
    /\ nSteps = 3
    /\ state = "finished"
    /\ Len(instructions) = 2
    /\ termination_reason = Some("Program exited via syscall 10.")

\* C8: after reset, from any state, every field is that of a freshly
\* constructed instance (so a second reset changes nothing).
C8_ResetIsFresh == call.op = "reset" => Self = Fresh

\* a reset has been called on an object in state error, and has made it fresh
C8_Witness == call.op = "reset" /\ call.prior = "error" /\ Self = Fresh

\* the value does not fit the signed range of num_bytes bytes
OutOfSignedRange(v, n) ==
    IF n = 4 THEN v.h < -32768 \/ v.h >= 32768
    ELSE BLt(v, FromInt(-(2 ^ (8 * n - 1)))) \/ BLe(FromInt(2 ^ (8 * n - 1)), v)

\* the address is aligned for an access of n bytes
Aligned(a, n) == (n = 2 => a.l % 2 = 0) /\ (n = 4 => a.l % 4 = 0)

IsOutOfRangeMessage(m) ==
    Len(m) = 1 /\ Len(m[1]) = 5 /\ m[1][1] = "Memory write error"
        /\ m[1][4] = "out of range for"

IsUnalignedWriteMessage(m) ==
    Len(m) = 1 /\ Len(m[1]) = 3 /\ m[1][1] = "Unaligned memory write"

\* C9 as stated: write_memory with a value outside the signed range of size
\* bytes returns False, sets the state to error with an out-of-range message
\* and leaves memory unchanged.
C9_AsStated ==
    [][(call'.op = "write_memory" /\ OutOfSignedRange(call'.value, call'.num_bytes))
        => /\ ret' = Ret("bool", FALSE)
           /\ state' = "error"
           /\ IsOutOfRangeMessage(error_message')
           /\ memory' = memory]_vars

\* C9 amended: write_memory with a value outside the signed range of size
\* bytes returns False, sets the state to error and leaves memory unchanged;
\* the message is the out-of-range one when the address is aligned for the
\* size, and the unaligned-write one when it is not.
C9_OutOfRangeWrite ==
    [][(call'.op = "write_memory" /\ OutOfSignedRange(call'.value, call'.num_bytes))
        => /\ ret' = Ret("bool", FALSE)
           /\ state' = "error"
           /\ IF Aligned(call'.address, call'.num_bytes)
              THEN IsOutOfRangeMessage(error_message')
              ELSE IsUnalignedWriteMessage(error_message')
           /\ memory' = memory]_vars

\* write_memory(DATA_START, 200, 1) has failed on loaded data
C9_Witness ==
    /\ call.op = "write_memory"
    /\ call.address = DATA_START /\ call.value = W(0, 200) /\ call.num_bytes = 1
    /\ ret = Ret("bool", FALSE)
    /\ state = "error"
    /\ MemGet(memory, DATA_START) # 0

\* bits 8i .. 8i+7 of the two's-complement pattern of v
PatternByte(v, i) ==
    IF i = 0 THEN v.l % 256
    ELSE IF i = 1 THEN v.l \div 256
    ELSE IF i = 2 THEN (v.h % Half) % 256
    ELSE (v.h % Half) \div 256

\* v mod 2^(8n)
PatternOf(v, n) ==
    IF n = 1 THEN W(0, v.l % 256) ELSE IF n = 2 THEN W(0, v.l) ELSE W(v.h % Half, v.l)

\* C10: after a write_memory of size 1, 2 or 4 that succeeds, read_memory
\* gives the value back, read_memory_unsigned gives it mod 2^(8 size), byte
\* addr+i holds bits 8i..8i+7 of the pattern, and no other byte has changed.
C10_WriteReadRoundTrip ==
    [][(call'.op = "write_memory" /\ ret' = Ret("bool", TRUE))
        => LET a == call'.address
               v == call'.value
               n == call'.num_bytes
               written == {BAddInt(a, i) : i \in 0 .. n - 1}
           IN  /\ read_memory(Self', a, n).ret = v
               /\ read_memory_unsigned(Self', a, n).ret = PatternOf(v, n)
               /\ \A i \in 0 .. n - 1 : MemGet(memory', BAddInt(a, i)) = PatternByte(v, i)
               /\ \A x \in (DOMAIN memory \cup DOMAIN memory') \ written :
                      MemGet(memory', x) = MemGet(memory, x)]_vars

\* write_memory(DATA_START, 0x12345678, 4) has succeeded over loaded data
C10_Witness ==
    /\ call.op = "write_memory"
    /\ call.address = DATA_START /\ call.value = W(4660, 22136) /\ call.num_bytes = 4
    /\ ret = Ret("bool", TRUE)
    /\ MemGet(memory, DATA_START) = 120
    /\ MemGet(memory, BAddInt(DATA_START, 5)) # 0

-----------------------------------------------------------------------------
(* Properties of the assembler.                                            *)

\* assemble has returned, and with no error
AssembledWithoutErrors == phase = "done" /\ errors = <<>>

\* the first base instruction emitted for the line numbered line_num is the k-th
FirstEmittedFor(k, line_num) ==
    /\ final_instructions[k].original_line_num = line_num
    /\ (k = 1 \/ final_instructions[k - 1].original_line_num # line_num)

\* the expansion of the pseudo-instruction on a parsed line fails
ExpansionFails(parsed_line) ==
    /\ parsed_line.type = "instruction"
    /\ parsed_line.name \in DOMAIN PSEUDO_INSTRUCTIONS
    /\ PSEUDO_HANDLERS(parsed_line, symbol_table) = None

\* C2: for a source that assembles without errors, the address the symbol
\* table holds for a label on an instruction line is the final address of the
\* first base instruction emitted for that line.  It is stated for the
\* sources all of whose pseudo-instructions expand, where every line that
\* pass 1 counted emits at least one base instruction.
C2_LabelAddress ==
    (AssembledWithoutErrors /\ \A i \in 1 .. Len(parsed_lines) : ~ExpansionFails(parsed_lines[i])) =>
        \A i \in 1 .. Len(parsed_lines) :
            (parsed_lines[i].type = "instruction" /\ parsed_lines[i].label # None) =>
                \A k \in 1 .. Len(final_instructions) :
                    FirstEmittedFor(k, parsed_lines[i].line_num) =>
                        symbol_table[parsed_lines[i].label[1]] = final_instructions[k].address

BranchMnemonics == {"beq", "bne", "blez", "bgtz", "bltz", "bgez"}

\* the label a branch or a jump names: its last operand
LabelOf(instr_details) == instr_details.operands[Len(instr_details.operands)].s

\* the low 26 bits of a word
Low26(w) == (w.h % 1024) * Half + w.l

C5_FailedExpansionReported ==
    phase = "done" =>
        \A i \in 1 .. Len(parsed_lines) :
            ExpansionFails(parsed_lines[i]) =>
                /\ \E e \in 1 .. Len(errors) : errors[e].line = parsed_lines[i].line_num
                /\ assemble_result.machine_code = <<>>

-----------------------------------------------------------------------------
(* Alignment of the memory accesses.                                       *)

MemoryCalls == {"read_memory", "read_memory_unsigned", "write_memory"}

\* what a memory call returns when it fails
Sentinel(op) == IF op = "write_memory" THEN Ret("bool", FALSE) ELSE Ret("int", Zero)

\* C11: a size-2 access at an odd address, or a size-4 access at an address
\* not divisible by 4, sets the state to error and returns the sentinel (0 for
\* the two reads, False for the write) with no memory byte changed; a size-1
\* access is never rejected for alignment: a size-1 read changes neither the
\* state nor the message, and a size-1 write fails only as out of range.
C11_Misaligned ==
    [][(call'.op \in MemoryCalls) =>
         /\ ~Aligned(call'.address, call'.num_bytes) =>
              /\ state' = "error"
              /\ ret' = Sentinel(call'.op)
              /\ memory' = memory
         /\ (call'.num_bytes = 1 /\ call'.op # "write_memory") =>
              /\ state' = state
              /\ error_message' = error_message
         /\ (call'.num_bytes = 1 /\ call'.op = "write_memory") =>
              \/ ret' = Ret("bool", TRUE) /\ state' = state
              \/ IsOutOfRangeMessage(error_message')]_vars

\* read_memory(DATA_START + 2, 4) has failed on a loaded simulator whose
\* data covers the address
C11_Witness ==
    /\ call.op = "read_memory"
    /\ call.address = BAddInt(DATA_START, 2) /\ call.num_bytes = 4
    /\ call.prior = "loaded"
    /\ state = "error"
    /\ ret = Ret("int", Zero)
    /\ MemGet(memory, BAddInt(DATA_START, 2)) # 0

-----------------------------------------------------------------------------
(* The disassembler: the errors and the lines of disassemble.              *)

\* the text without the blanks around it and without a leading 0x or 0X
HexPart(t) ==
    LET s == strip(t)
    IN  IF Len(s) >= 2 /\ s[1] = 0 /\ s[2] \in {LetterX, Capital(LetterX)}
        THEN SubSeq(s, 3, Len(s)) ELSE s

IsHexDigit(c) == c \in (0 .. 15) \cup {Capital(k) : k \in 10 .. 15}

\* the entry is not blank and is not the hexadecimal text of a 32-bit word
FailsToParse(t) ==
    /\ strip(t) # <<>>
    /\ \/ Len(HexPart(t)) > 8
       \/ \E k \in 1 .. Len(HexPart(t)) : ~IsHexDigit(HexPart(t)[k])

\* the entry is the hexadecimal text of a 32-bit word
IsWordText(t) == strip(t) # <<>> /\ ~FailsToParse(t)

\* C12: the errors disassemble returns hold an entry with the 1-based line
\* number of every input line that fails to parse as hex, whatever comes
\* after that line in the input
C12_EveryBadLineReported ==
    dcall.op = "disassemble" =>
        \A i \in 1 .. Len(dcall.lines) :
            FailsToParse(dcall.lines[i]) =>
                \E k \in 1 .. Len(dret.v.errors) :
                    /\ "line" \in DOMAIN dret.v.errors[k]
                    /\ dret.v.errors[k].line = i

\* C13: the text disassemble returns has exactly one line per entry of a
\* non-empty input, in input order: line i is a decoded line when entry i is
\* a valid word and the line "Error line i" when entry i is not valid hex,
\* blank entries included in the count
C13_OneLinePerEntry ==
    (dcall.op = "disassemble" /\ dcall.lines # <<>>) =>
        LET text == dret.v.assembly_code
        IN  /\ Len(text) = Len(dcall.lines)
            /\ \A i \in 1 .. Len(dcall.lines) :
                   /\ FailsToParse(dcall.lines[i]) =>
                          /\ text[i].name = "Error line"
                          /\ text[i].operands[1] = Num(FromInt(i))
                   /\ IsWordText(dcall.lines[i]) =>
                          text[i].name \notin {"Error line", ""}

-----------------------------------------------------------------------------
(* The encoders and disassemble_instruction, one after the other.          *)

\* the number of the register a token names
RegOf(token) == REGISTER_MAP[token.s]

\* the decoded operand says what the given operand of that type said: the
\* same register number, the same value, or the address of the label
SameOperand(op_type, given, decoded, symtab) ==
    CASE op_type \in {"rd", "rs", "rt"} ->
            decoded.s \in DOMAIN REGISTER_MAP /\ RegOf(decoded) = RegOf(given)
      [] op_type \in {"shamt", "imm"} -> decoded.n = given.n
      [] OTHER -> decoded.n = Some(FromInt(symtab[given.s]))

\* sll $zero, $zero, 0
IsNop(d) ==
    /\ d.name = "sll"
    /\ RegOf(d.operands[1]) = 0 /\ RegOf(d.operands[2]) = 0
    /\ d.operands[3].n = Some(Zero)

\* the target of a jump lies in the 256 MB region of the jump itself
JumpInRange(e) ==
    e.details.name \in DOMAIN J_TYPE_OPCODE =>
        e.symtab[e.details.operands[1].s] \div 2 ^ 28 = e.details.address \div 2 ^ 28

\* the line is the instruction e.details again
SameInstruction(e, line) ==
    LET d == e.details
        format == FORMATS[d.name]
    IN  IF IsNop(d) THEN line = Base("nop", <<>>)
        ELSE IF d.name = "jalr"
        THEN LET rs == RegOf(d.operands[Len(d.operands)])
                 rd == IF Len(d.operands) = 1 THEN 31 ELSE RegOf(d.operands[1])
             IN  /\ line.name = "jalr"
                 /\ IF rd = 31
                    THEN Len(line.operands) = 1 /\ RegOf(line.operands[1]) = rs
                    ELSE /\ Len(line.operands) = 2
                         /\ RegOf(line.operands[1]) = rd
                         /\ RegOf(line.operands[2]) = rs
        ELSE /\ line.name = d.name
             /\ Len(line.operands) = Len(format)
             /\ \A i \in 1 .. Len(format) :
                    SameOperand(format[i], d.operands[i], line.operands[i], e.symtab)

\* disassemble_instruction has just decoded the word made of e at e's address
DecodedAtOwnAddress(e) ==
    /\ e.word # None
    /\ dcall.op = "disassemble_instruction"
    /\ dcall.machine_code_int = e.word
    /\ dcall.pc = e.details.address

\* C14: for every base mnemonic of the R, I and J tables and every operand
\* tuple the encoders accept (the target of a jump being in the region of the
\* jump), disassemble_instruction applied to the encoded word at the address
\* of the instruction gives the same mnemonic, the same register numbers in
\* the same roles and the same immediate value or absolute target address,
\* with sll $zero,$zero,0 given as nop and jalr with rd = 31 in its
\* one-operand form
C14_EncodeDecodeRoundTrip ==
    \A k \in DOMAIN encoded :
        (DecodedAtOwnAddress(encoded[k]) /\ JumpInRange(encoded[k])) =>
            SameInstruction(encoded[k], dret.v)

C14_Witness ==
    /\ encoded # None
    /\ DecodedAtOwnAddress(encoded[1])
    /\ encoded[1].details.name = "bne"
    /\ encoded[1].details.address = base_text_address + 16
    /\ encoded[1].symtab["L"] = base_text_address
    /\ dret.v = Base("bne", <<Name("$t0"), Name("$t1"), HexNum(FromInt(base_text_address))>>)

-----------------------------------------------------------------------------
(* step at a pc that maps to no loaded instruction.                        *)

\* step is called in a steppable state whose pc is word-aligned and is no
\* key of instruction_map
StepsOffTheMap ==
    /\ call'.op = "step"
    /\ state \in Steppable
    /\ pc.l % 4 = 0
    /\ pc \notin DOMAIN instruction_map

\* C15: a step in a steppable state at an aligned pc that maps to no loaded
\* instruction finishes the run with exit code 0 and the "ran off the end"
\* reason when pc is below the data base given to load_program, and makes
\* the state error when pc is at or above that base; pc, the registers and
\* memory stay as they were, whatever data base was given
C15_OffTheMap ==
    [][StepsOffTheMap =>
         /\ BLt(pc, data_base) =>
                /\ state' = "finished"
                /\ exit_code' = Some(0)
                /\ termination_reason' = Some("Execution ran off the end of the program.")
         /\ BLe(data_base, pc) => state' = "error"
         /\ pc' = pc /\ registers' = registers /\ memory' = memory]_vars

-----------------------------------------------------------------------------
(* step on syscall.                                                        *)

\* step is called where it fetches the word syscall
StepsOnSyscall ==
    /\ call'.op = "step"
    /\ Fetches
    /\ Fetched.opcode = 0 /\ Fetched.funct = 12

ExitReason == Some("Program exited via syscall 10.")

\* C16: a step that executes syscall with 10 in register 2 makes the state
\* finished with exit code 0 and a termination reason, leaves pc at the
\* syscall and the error message empty; every step made afterwards in that
\* finished state leaves the state finished and pc where it is
C16_ExitSyscall ==
    [][/\ (StepsOnSyscall /\ registers[2] = W(0, 10)) =>
             /\ state' = "finished"
             /\ exit_code' = Some(0)
             /\ termination_reason' = ExitReason
             /\ pc' = pc
             /\ error_message' = None
       /\ (call'.op = "step" /\ state = "finished" /\ termination_reason = ExitReason) =>
             /\ state' = "finished"
             /\ pc' = pc
             /\ termination_reason' = ExitReason]_vars

C16_Witness ==
    /\ call.op = "step" /\ call.prior = "finished"
    /\ state = "finished"
    /\ termination_reason = ExitReason
    /\ exit_code = Some(0)
    /\ pc = BAddInt(TEXT_START, 4)
    /\ registers[2] = W(0, 10)

ServedSyscalls == {W(0, 1), W(0, 4), W(0, 10)}

\* C17: a step that executes syscall with a code other than 1, 4 and 10 in
\* register 2 makes the state error with a message that names the code; pc
\* is not advanced, and the registers, memory and the cumulative output stay
\* as they were
C17_UnknownSyscall ==
    [][(StepsOnSyscall /\ registers[2] \notin ServedSyscalls) =>
         /\ state' = "error"
         /\ error_message' = Some(<<"Unimplemented syscall", registers[2]>>)
         /\ pc' = pc
         /\ registers' = registers
         /\ memory' = memory
         /\ persistent_output' = persistent_output]_vars

C17_Witness ==
    /\ call.op = "step" /\ call.prior = "loaded"
    /\ state = "error"
    /\ error_message = Some(<<"Unimplemented syscall", Zero>>)
    /\ pc = TEXT_START
    /\ Decode(instructions[1]).funct = 12

-----------------------------------------------------------------------------
(* step on a word the engine does not execute.                             *)

ExecutedFuncts == {0, 2, 8, 9, 12, 33, 35, 36, 37}

ExecutedOpcodes == {0, 1, 2, 3, 4, 5, 6, 7, 9, 13, 15, 35, 43}

ExecutedRegimm == {0, 1}

\* the decoded word f is one step has no case for
NotExecuted(f) ==
    \/ f.opcode \notin ExecutedOpcodes
    \/ f.opcode = 0 /\ f.funct \notin ExecutedFuncts
    \/ f.opcode = 1 /\ f.rt \notin ExecutedRegimm

\* the message says the instruction is not implemented and holds the raw
\* word and the field that selected it
IsUnimplementedMessage(m, instruction, f) ==
    /\ m # None
    /\ m[1][1] = "Execution not implemented"
    /\ m[1][4] = instruction
    /\ <<m[1][5], m[1][6]>> \in {<<"opcode", f.opcode>>, <<"funct", f.funct>>, <<"rt", f.rt>>}

\* C18: a step onto a word whose opcode, R-type funct or REGIMM rt the engine
\* does not execute makes the state error with a message that says the
\* instruction is unimplemented and holds its raw word and field, and leaves
\* pc, the registers, hi, lo and memory as they were
C18_Unimplemented ==
    [][(call'.op = "step" /\ Fetches /\ NotExecuted(Fetched)) =>
         /\ state' = "error"
         /\ IsUnimplementedMessage(error_message',
                                   instructions[instruction_map[pc] + 1], Fetched)
         /\ pc' = pc /\ registers' = registers /\ hi' = hi /\ lo' = lo
         /\ memory' = memory]_vars

-----------------------------------------------------------------------------
(* load_program on text that is no hexadecimal word.                       *)

\* the entry is not empty and is not the hexadecimal text of a 32-bit word:
\* it holds a character that is no hex digit, or no digit at all, or its
\* value takes more than 32 bits
BadCodeEntry(e) ==
    /\ e # EmptyText
    /\ \/ e.d = <<>>
       \/ \E k \in 1 .. Len(e.d) : e.d[k] \notin 0 .. 15
       \/ ~BLt(HexValue(e.d, Zero), W(Half, 0))

\* the data text is no sequence of pairs of hex digits
BadData(d) == Len(d) % 2 # 0 \/ \E k \in 1 .. Len(d) : d[k] \notin 0 .. 15

BadLoadInput(i) ==
    \/ \E k \in 1 .. Len(i.code) : BadCodeEntry(i.code[k])
    \/ BadData(i.data)

\* C19: load_program returns True or False and lets no fault out; when a
\* code entry is not the hexadecimal text of a 32-bit word or the data is
\* not valid hex, it returns False and leaves the state error with a message
C19_LoadNeverFaults ==
    call.op = "load_program" =>
        /\ ret.kind = "bool"
        /\ BadLoadInput(call.input[1]) =>
               /\ ret = Ret("bool", FALSE)
               /\ state = "error"
               /\ error_message # None

\* C20: after a successful load_program, whatever code list it accepted,
\* every step returns a snapshot and lets no fault out (a steppable state is
\* one only a successful load leads to)
C20_StepNeverFaults ==
    (call.op = "step" /\ call.prior \in Steppable) => ret.kind = "snapshot"

\* the base instruction is a branch on valid registers whose label is defined
\* at a word-aligned distance of more than 32767 words, or of more than 32768
\* words backwards, from the address that follows the branch
FarBranch(d) ==
    /\ d.name \in BranchMnemonics
    /\ Len(d.operands) = Len(FORMATS[d.name])
    /\ \A i \in 1 .. Len(d.operands) - 1 : d.operands[i].s \in DOMAIN REGISTER_MAP
    /\ LabelOf(d) \in DOMAIN symbol_table
    /\ (symbol_table[LabelOf(d)] - (d.address + 4)) % 4 = 0
    /\ LET off == (symbol_table[LabelOf(d)] - (d.address + 4)) \div 4
       IN  off > 32767 \/ off < -32768

\* the error the encoder records for the far branch d
TooFar(d) ==
    [line |-> d.original_line_num,
     message |-> <<"Branch target too far", LabelOf(d),
                   (symbol_table[LabelOf(d)] - (d.address + 4)) \div 4>>]

\* C21: pass 2b, arriving at a branch whose target label is more than 32767
\* words away from the address following the branch, records the error
\* "Branch target ... (offset N) too far" for its line, emits no word for it
\* and stops; and the source of the test,
\* beq $zero,$zero,target / .space 0x40000 / target: nop, is rejected with that
\* error, the offset reported being 65535.
C21_BranchTooFar ==
    /\ [][(phase = "pass2b" /\ idx <= Len(final_instructions)
               /\ FarBranch(final_instructions[idx])) =>
            /\ errors' = Append(errors, TooFar(final_instructions[idx]))
            /\ machine_code' = machine_code
            /\ phase' = "done"]_vars
    /\ []((phase = "done" /\ source = BranchTooFarProgram) =>
            \E i \in 1 .. Len(errors) :
                /\ errors[i].line = 1
                /\ errors[i].message = <<"Branch target too far", "target", 65535>>)

\* the 4-byte little-endian two's-complement pattern of v
WordPattern(v) == <<PatternByte(v, 0), PatternByte(v, 1), PatternByte(v, 2), PatternByte(v, 3)>>

\* the token is a numeral whose value is in -2^31 .. 2^32 - 1
Representable(arg) == arg.n # None /\ -32768 <= arg.n[1].h /\ arg.n[1].h < Half

RECURSIVE WordPatterns(_, _)
\* the patterns of the arguments args[i], args[i + 1], ... one after another
WordPatterns(args, i) ==
    IF i > Len(args) THEN <<>> ELSE WordPattern(args[i].n[1]) \o WordPatterns(args, i + 1)

RECURSIVE WordLines(_, _)
\* the patterns of the arguments of the lines p[i], p[i + 1], ...
WordLines(p, i) ==
    IF i > Len(p) THEN <<>> ELSE WordPatterns(p[i].operands, 1) \o WordLines(p, i + 1)

\* a source that is .data followed by .word lines of representable values
OnlyWords(p) ==
    /\ Len(p) >= 2
    /\ p[1].type = "directive" /\ p[1].name = ".data"
    /\ \A i \in 2 .. Len(p) :
        /\ p[i].type = "directive" /\ p[i].name = ".word"
        /\ \A k \in 1 .. Len(p[i].operands) : Representable(p[i].operands[k])

\* C22: every .word argument in the data segment whose value is in
\* -2^31 .. 2^32-1 (0xdeadbeef, say) is accepted without any error and
\* appended to the data segment as its 4-byte little-endian two's-complement
\* pattern (0xdeadbeef gives ef be ad de).
C22_WordPatterns ==
    (phase = "done" /\ OnlyWords(source)) =>
        /\ errors = <<>>
        /\ asm_data_segment = WordLines(source, 2)

RECURSIVE CountedBytes(_, _, _, _)
\* the bytes pass 1 counts for the data directives of the lines p[i], ...,
\* the cursor being at addr, in the data segment or not
CountedBytes(p, i, in_data, addr) ==
    IF i > Len(p) THEN 0
    ELSE IF p[i].type = "directive" /\ p[i].name = ".data"
    THEN CountedBytes(p, i + 1, TRUE, IF in_data THEN addr ELSE base_data_address)
    ELSE IF p[i].type = "directive" /\ p[i].name = ".text"
    THEN CountedBytes(p, i + 1, FALSE, IF in_data THEN base_text_address ELSE addr)
    ELSE IF p[i].type = "directive" /\ in_data /\ p[i].name \notin {".globl", ".extern"}
    THEN LET inc == directive_increment([current_address |-> addr, errors |-> <<>>],
                                        p[i].name, p[i].operands, i).inc
         IN  inc + CountedBytes(p, i + 1, in_data, addr + inc)
    ELSE CountedBytes(p, i + 1, in_data, addr)

\* the bytes of the data segment that the i-th parsed line, a .space or an
\* .align in the data segment, reserves: pass 1 put the next line, or the end
\* of the data, at the address up to which they reach
ReservedBy(i) ==
    IF parsed_lines[i].type = "directive" /\ parsed_lines[i].name \in {".space", ".align"}
           /\ parsed_lines[i].address >= base_data_address
    THEN LET from == parsed_lines[i].address - base_data_address
             inc == directive_increment([current_address |-> parsed_lines[i].address,
                                         errors |-> <<>>],
                                        parsed_lines[i].name, parsed_lines[i].operands, i).inc
         IN  from + 1 .. from + inc
    ELSE {}

\* C23: for a program that assembles without errors, the data segment
\* returned is as long as the bytes pass 1 counted for its data directives,
\* and every byte that a .space or an .align reserves is in it and is zero,
\* whether another data directive follows or not.
C23_DataSegmentLength ==
    AssembledWithoutErrors =>
        /\ Len(asm_data_segment) = CountedBytes(source, 1, FALSE, 0)
        /\ \A i \in 1 .. Len(parsed_lines) : \A k \in ReservedBy(i) :
               k <= Len(asm_data_segment) /\ asm_data_segment[k] = 0

\* C24: whenever assemble ends with a non-empty error list, the words returned
\* hold no word for the instruction on which the first error occurred nor for
\* any base instruction after it: when an error was recorded in pass 1 or in
\* pass 2a the list of words is empty, and when the first error is an encoding
\* failure of a base instruction in pass 2b the list holds exactly the words
\* of the base instructions that precede it, with no placeholder.
C24_NoWordAfterError ==
    /\ [][(phase = "pass2a" /\ phase' = "done") => machine_code' = <<>>]_vars
    /\ [][(phase = "pass2b" /\ errors' # errors) =>
            /\ errors = <<>>
            /\ phase' = "done"
            /\ Len(machine_code) = idx - 1
            /\ machine_code' = machine_code]_vars
    /\ [][(phase = "done" /\ phase' = "done") => machine_code' = machine_code]_vars
    /\ []((phase = "done" /\ errors # <<>>) => Len(machine_code) < Len(final_instructions) \/ machine_code = <<>>)

\* pass 2b has failed on a base instruction that is not the first, and the
\* words of the instructions before it are returned
C24_Witness ==
    /\ phase = "done"
    /\ errors # <<>>
    /\ machine_code # <<>>
    /\ Len(machine_code) = idx - 1
    /\ idx <= Len(final_instructions)

\* C25: when pass 1 meets a line whose label the symbol table already holds,
\* it records a "Duplicate label definition" error for that line and the table
\* keeps the address it holds; a label met for the first time is entered with
\* the address of its line; and the table does not change during pass 2, so
\* that it holds for every label the address of its first definition.
C25_DuplicateLabel ==
    /\ [][(phase = "first_pass" /\ phase' = "first_pass" /\ source[idx].label # None) =>
            LET label == source[idx].label[1]
            IN  IF label \in DOMAIN symbol_table
                THEN /\ symbol_table' = symbol_table
                     /\ \E i \in 1 .. Len(errors') :
                            /\ errors'[i].line = idx
                            /\ errors'[i].message = <<"Duplicate label definition", label>>
                ELSE symbol_table' = (label :> current_address) @@ symbol_table]_vars
    /\ [][(phase = "first_pass" /\ phase' = "first_pass" /\ source[idx].label = None) =>
            symbol_table' = symbol_table]_vars
    /\ [][(phase \in {"first_pass", "pass2a", "pass2b"} /\ phase' # "first_pass") =>
            symbol_table' = symbol_table]_vars
    /\ []((phase = "done" /\ source = DuplicateLabelProgram) =>
            /\ symbol_table = ("label1" :> base_text_address)
            /\ \E i \in 1 .. Len(errors) :
                   /\ errors[i].line = 2
                   /\ errors[i].message = <<"Duplicate label definition", "label1">>)

\* the source of the test has been assembled: the second definition of label1,
\* four bytes behind the first, is reported and the table holds the first
C25_Witness ==
    /\ phase = "done"
    /\ source = DuplicateLabelProgram
    /\ parsed_lines[2].label = Some("label1")
    /\ symbol_table["label1"] = base_text_address
    /\ errors # <<>>

\* the addresses a + 0 .. a + n - 1
Range(a, n) == { BAddInt(a, k) : k \in 0 .. n - 1 }

\* what a successful load of the input i leaves in the object s
FreshlyLoaded(s, i) ==
    LET n == Len(i.data) \div 2
    IN  /\ s.state = "loaded"
        /\ s.pc = i.base_text
        /\ s.registers = [r \in Regs |-> IF r = 29 THEN W(32767, 65532) ELSE Zero]
        /\ s.hi = Zero /\ s.lo = Zero
        /\ s.error_message = None /\ s.exit_code = None
        /\ s.persistent_output = <<>>
        /\ s.program_break = BAddInt(i.base_data, n)
        /\ \A k \in 0 .. n - 1 :
               MemGet(s.memory, BAddInt(i.base_data, k)) =
                   i.data[2 * k + 1] * 16 + i.data[2 * k + 2]
        /\ DOMAIN s.memory \subseteq
               Range(i.base_text, 4 * Len(i.code)) \cup Range(i.base_data, n)

\* a nop and twelve hex digits of data, at the default bases
NopWithData == LoadInput(<<Hex8(Zero)>>, SomeData, TEXT_START, DATA_START)

\* C26: after load_program succeeds, from any prior state of the simulator
\* (idle, loaded, paused, finished or error, with any registers, memory and
\* output), state is loaded, pc is the text base, registers[29] is 0x7ffffffc
\* and every other register 0, hi and lo are 0, error message and exit code
\* are empty, the cumulative output is empty, the program break is the data
\* base plus the number of data bytes, each data byte is read at data base + i
\* and no byte of the previous program remains in memory.  It is stated of
\* every load the caller has made, and of a load of a nop with data into
\* every state that a reset, a load, a step or a write_memory has left.
C26_LoadPostconditions ==
    /\ (call.op = "load_program" /\ ret.kind = "bool" /\ ret.v) =>
            FreshlyLoaded(Self, call.input[1])
    /\ call.op \in {"reset", "load_program", "step", "write_memory"} =>
            LET r == load_program(Self, NopWithData.code, NopWithData.data,
                                  NopWithData.base_text, NopWithData.base_data)
            IN  ~r.raised /\ r.ret = TRUE /\ FreshlyLoaded(r.s, NopWithData)

\* a program with data has been loaded into a simulator that had failed
C26_Witness ==
    /\ call.op = "load_program"
    /\ ret.kind = "bool" /\ ret.v
    /\ call.prior = "error"
    /\ call.input[1].data = SomeData
    /\ MemGet(memory, DATA_START) = 18
    /\ program_break = W(4097, 6)

\* the word that step is about to execute is a jr or a jalr through a
\* register whose value is no multiple of 4
JumpsUnaligned ==
    /\ Fetches
    /\ Fetched.opcode = 0
    /\ Fetched.funct \in {8, 9}
    /\ registers[Fetched.rs].l % 4 # 0

\* C27: in every state reached by load_program with a text base that is a
\* multiple of 4 followed by steps, pc is a multiple of 4: a jr or a jalr
\* through a register whose value is no multiple of 4 makes the state error
\* and leaves pc at the address of the jump, and the target of every branch,
\* j and jal is a multiple of 4.
C27_PcAligned ==
    /\ [](pc.l % 4 = 0)
    /\ [][(call'.op = "step" /\ JumpsUnaligned) =>
            /\ state' = "error"
            /\ pc' = pc]_vars

\* a step has refused a jr through a register that holds 2, and pc is still
\* the address of the jr
C27_Witness ==
    /\ call.op = "step"
    /\ state = "error"
    /\ error_message = Some(<<"Jump Register target address unaligned", W(0, 2)>>)
    /\ pc = BAddInt(text_base, 4)
    /\ registers[8] = W(0, 2)

\* C28: assemble, called again on the same instance with a source it was
\* given before, returns the machine words, the data segment and the errors
\* it returned then, whatever sources, with or without errors, were assembled
\* in between: every call starts from an empty symbol table, the text base,
\* the text segment, an empty data segment and no error.
C28_AssembleAgain ==
    /\ [][phase' = "first_pass" /\ phase # "first_pass" =>
            /\ symbol_table' = EmptyMap
            /\ current_address' = base_text_address
            /\ in_data_segment' = FALSE
            /\ asm_data_segment' = <<>>
            /\ machine_code' = <<>>
            /\ errors' = <<>>]_vars
    /\ [](phase = "done" =>
            \A k \in 1 .. Len(assembled) :
                assembled[k].source = source => assembled[k].result = assemble_result)

\* a source with labels has been assembled, then a source that has errors,
\* then the first source again
C28_Witness ==
    /\ phase = "done"
    /\ Len(assembled) = 2
    /\ assembled[1].source = source
    /\ assembled[2].source # source
    /\ assembled[2].result.errors # <<>>
    /\ symbol_table # EmptyMap
    /\ machine_code # <<>>

\* C30: a step that executes jalr with a multiple of 4 in rs sets pc to that
\* value and writes the old pc + 8 to the register that the rd field of the
\* word numbers; when the field is 0 (jalr $zero, rs) the write is discarded
\* as every write to register 0 is, and no register changes, $ra included.
C30_JalrLinkRegister ==
    [][(call'.op = "step" /\ Fetches /\ Fetched.opcode = 0 /\ Fetched.funct = 9
            /\ registers[Fetched.rs].l % 4 = 0) =>
        /\ pc' = registers[Fetched.rs]
        /\ registers' = IF Fetched.rd # 0
                        THEN [registers EXCEPT ![Fetched.rd] = BAddInt(pc, 8)]
                        ELSE registers]_vars

RECURSIVE StepTimes(_, _)
\* the simulator s after n calls of step
StepTimes(s, n) == IF n = 0 THEN s ELSE StepTimes(step(s).s, n - 1)

\* the simulator after the words assemble returned have been loaded into a
\* new simulator and step has been called once for each
LoadedAndStepped ==
    StepTimes(load_program(Fresh, assemble_result.machine_code, NoData,
                           TEXT_START, DATA_START).s,
              Len(machine_code))

\* the source is the one line li rd, imm with rd a register other than $zero
\* and imm in -2^31 .. 2^32 - 1
IsLi(p) ==
    /\ Len(p) = 1
    /\ p[1].type = "instruction" /\ p[1].name = "li" /\ p[1].label = None
    /\ Len(p[1].operands) = 2
    /\ p[1].operands[1].s \in DOMAIN REGISTER_MAP
    /\ REGISTER_MAP[p[1].operands[1].s] # 0
    /\ Representable(p[1].operands[2])

\* the word is the I-type word of the opcode and the fields
IsIWord(w, opcode, rs, rt, imm) ==
    LET f == Decode(w)
    IN  f.opcode = opcode /\ f.rs = rs /\ f.rt = rt /\ f.imm = imm

\* C29: for imm in -2^31 .. 2^32-1 and rd other than $zero, assembling
\* li rd, imm, loading the one or two words and stepping once for each leaves
\* the state paused and imm mod 2^32 in rd; the words are one addiu when imm is
\* in -32768 .. 32767, one ori when it is in 32768 .. 65535, one lui into rd
\* when the low 16 bits of imm are 0, and otherwise lui $at and ori rd, $at.
C29_LoadImmediate ==
    (phase = "done" /\ IsLi(source)) =>
        LET rd == REGISTER_MAP[source[1].operands[1].s]
            imm == source[1].operands[2].n[1]
            upper == imm.h % Half
        IN  /\ errors = <<>>
            /\ IF BLe(FromInt(-32768), imm) /\ BLe(imm, FromInt(32767))
               THEN Len(machine_code) = 1 /\ IsIWord(machine_code[1], 9, 0, rd, imm.l)
               ELSE IF BLe(FromInt(32768), imm) /\ BLe(imm, FromInt(65535))
               THEN Len(machine_code) = 1 /\ IsIWord(machine_code[1], 13, 0, rd, imm.l)
               ELSE IF imm.l = 0
               THEN Len(machine_code) = 1 /\ IsIWord(machine_code[1], 15, 0, rd, upper)
               ELSE /\ Len(machine_code) = 2
                    /\ IsIWord(machine_code[1], 15, 0, 1, upper)
                    /\ IsIWord(machine_code[2], 13, 1, rd, imm.l)
            /\ LoadedAndStepped.state = "paused"
            /\ LoadedAndStepped.registers[rd] = W(upper, imm.l)

\* li $31, 0xdeadbeef has been assembled into lui $at and ori $31, $at, and
\* the two steps have left 0xdeadbeef in register 31
C29_Witness ==
    /\ phase = "done"
    /\ IsLi(source)
    /\ source[1].operands = <<Name("$31"), HexNum(W(57005, 48879))>>
    /\ Len(machine_code) = 2
    /\ LoadedAndStepped.registers[31] = W(57005, 48879)
    /\ LoadedAndStepped.pc = BAddInt(TEXT_START, 8)

\* the little-endian word that the memory bytes a .. a + 3 hold
MemoryWord(a) ==
    W(MemGet(memory, BAddInt(a, 3)) * 256 + MemGet(memory, BAddInt(a, 2)),
      MemGet(memory, BAddInt(a, 1)) * 256 + MemGet(memory, a))

\* C31: in every state reached by step calls after a successful
\* load_program, for every loaded text address a the word that step would
\* fetch at a is the little-endian word that the memory bytes a .. a+3 hold;
\* so that after a sw into the text segment a later fetch at that address
\* executes the stored word.
C31_FetchReadsMemory ==
    (state \in {"loaded", "paused", "finished"} /\ nMem = 0) =>
        \A a \in DOMAIN instruction_map :
            instruction_map[a] < Len(instructions) =>
                instructions[instruction_map[a] + 1] = MemoryWord(a)

\* C32: right after a successful load_program, for every k below the number
\* of accepted code words the word step fetches at text_base + 4k is the k-th
\* accepted word, the word whose bytes are in memory at that address, and the
\* address map holds exactly the addresses text_base + 4k for those k; also
\* when the list given has empty strings, which the loader skips.
C32_MapAfterLoad ==
    (call.op = "load_program" /\ ret.kind = "bool" /\ ret.v) =>
        /\ Len(instructions) =
               Cardinality({k \in 1 .. Len(call.input[1].code) :
                               call.input[1].code[k] # EmptyText})
        /\ DOMAIN instruction_map =
               { BAddInt(text_base, 4 * k) : k \in 0 .. Len(instructions) - 1 }
        /\ \A k \in 0 .. Len(instructions) - 1 :
               LET a == BAddInt(text_base, 4 * k)
               IN  /\ a \in DOMAIN instruction_map
                   /\ instruction_map[a] < Len(instructions)
                   /\ instructions[instruction_map[a] + 1] = instructions[k + 1]
                   /\ instructions[k + 1] = MemoryWord(a)

\* the simulator as it is, held in input_wait by its caller
WaitingForInput == [Self EXCEPT !.state = "input_wait"]

PrintsString ==
    /\ Fetches
    /\ Fetched.opcode = 0 /\ Fetched.funct = 12
    /\ registers[2] = W(0, 4)

\* the offset from a of the first null byte of m at or after a, when it is
\* below 1024, and 1024 otherwise
FirstNull(m, a) ==
    IF \E n \in 0 .. 1023 : MemGet(m, BAddInt(a, n)) = 0
    THEN CHOOSE n \in 0 .. 1023 :
             /\ MemGet(m, BAddInt(a, n)) = 0
             /\ \A k \in 0 .. n - 1 : MemGet(m, BAddInt(a, k)) # 0
    ELSE 1024

\* what the claim says of the step of the simulator s, which is about to
\* execute print_string
PrintStringContract(s) ==
    LET a == s.registers[4]
        n == FirstNull(s.memory, a)
        r == step(s).s
    IN  IF n < 1024 /\ \A k \in 0 .. n - 1 : MemGet(s.memory, BAddInt(a, k)) < 128
        THEN /\ r.persistent_output =
                    s.persistent_output \o [k \in 1 .. n |-> MemGet(s.memory, BAddInt(a, k - 1))]
             /\ r.pc = BAddInt(s.pc, 4)
             /\ r.state = "paused"
        ELSE /\ r.state = "error"
             /\ r.pc = s.pc
             /\ r.persistent_output = s.persistent_output

\* the simulator with n bytes 'A' written from the address in $a0, the
\* byte after them being left as it is
WithLetters(n) ==
    [Self EXCEPT !.memory = [x \in Range(registers[4], n) |-> 65] @@ memory]

\* C34: a step that executes syscall with 4 in $v0: when the first null byte
\* at or after the address in $a0 is at an offset n < 1024 and the n bytes
\* before it are all below 128, exactly those n bytes are appended to the
\* cumulative output, pc advances by 4 and the state is paused; when there is
\* no null byte in the first 1024 bytes, or a byte before the null is 128 or
\* more, the state becomes error, pc is not advanced and the cumulative
\* output is unchanged.  It is stated of the memory as the calls left it,
\* and, where no memory-access call has been made, of that memory with 1023
\* and with 1024 letters at the address.
C34_PrintString ==
    PrintsString =>
        /\ PrintStringContract(Self)
        /\ nMem = 0 =>
               /\ MemGet(memory, BAddInt(registers[4], 1023)) = 0 =>
                      PrintStringContract(WithLetters(1023))
               /\ PrintStringContract(WithLetters(1024))

\* the two print_string calls of the program have been made: the first has
\* put the four bytes at the data base in the output, the second has met the
\* byte 0xab and made the state error, pc staying at the syscall
C34_Witness ==
    /\ call.op = "step"
    /\ state = "error"
    /\ error_message = Some(<<"Syscall print_string found non-ASCII data", W(4097, 5)>>)
    /\ persistent_output = <<18, 52, 86, 120>>
    /\ pc = BAddInt(TEXT_START, 16)

\* the simulator after the words assemble returned have been loaded into a
\* new simulator at the default bases and step has been called n times
LoadedAndSteppedTimes(n) ==
    StepTimes(load_program(Fresh, assemble_result.machine_code, NoData,
                           TEXT_START, DATA_START).s, n)

\* the simulator s is about to execute a word of the program
AboutToExecute(s) ==
    /\ s.state \in {"loaded", "paused"}
    /\ s.pc \in DOMAIN s.instruction_map
    /\ s.instruction_map[s.pc] < Len(final_instructions)

\* the base instruction whose word the simulator s is about to execute
Executing(s) == final_instructions[s.instruction_map[s.pc] + 1]

\* the branch d, written with registers, is taken on the registers of s
Taken(d, s) ==
    LET rs == to_signed_32(s.registers[RegOf(d.operands[1])])
    IN  CASE d.name = "beq" -> s.registers[RegOf(d.operands[1])] = s.registers[RegOf(d.operands[2])]
          [] d.name = "bne" -> s.registers[RegOf(d.operands[1])] # s.registers[RegOf(d.operands[2])]
          [] d.name = "blez" -> BLe(rs, Zero)
          [] d.name = "bgtz" -> BLt(Zero, rs)
          [] d.name = "bltz" -> BLt(rs, Zero)
          [] d.name = "bgez" -> BLe(Zero, rs)

\* C35: the words of a program assembled without errors are loaded at the
\* default text base and stepped: a step that executes a taken
\* beq/bne/blez/bgtz/bltz/bgez assembled with the label L sets pc to the
\* symbol-table address of L; a step that executes a j or jal assembled with
\* a label L of the text segment sets pc to the symbol-table address of L,
\* and jal sets $ra to the address of the jal plus 8.
C35_BranchesReachLabels ==
    AssembledWithoutErrors =>
        \A n \in 0 .. Len(machine_code) - 1 :
            LET s == LoadedAndSteppedTimes(n)
                d == Executing(s)
                r == step(s).s
            IN  (AboutToExecute(s) /\ LabelOf(d) \in DOMAIN symbol_table) =>
                    /\ (d.name \in BranchMnemonics /\ Taken(d, s)) =>
                           r.pc = FromInt(symbol_table[LabelOf(d)])
                    /\ (d.name \in {"j", "jal"} /\ symbol_table[LabelOf(d)] < base_data_address) =>
                           /\ r.pc = FromInt(symbol_table[LabelOf(d)])
                           /\ d.name = "jal" => r.registers[31] = BAddInt(s.pc, 8)

\* C36: in every program assembled without errors, the k-th word returned
\* (counted from 0) encodes the base instruction whose final address of pass
\* 2a is 0x00400000 + 4k, the address load_program gives that word at the
\* default text base; also in programs that switch between .text and .data
\* more than once.
C36_FinalAddresses ==
    AssembledWithoutErrors =>
        /\ Len(machine_code) = Len(final_instructions)
        /\ \A k \in 0 .. Len(machine_code) - 1 :
               final_instructions[k + 1].address = base_text_address + 4 * k

\* C37: in every state reached by reset, load_program, step, read_memory,
\* read_memory_unsigned and write_memory calls, the error message is set
\* exactly when the state is error (a step without error from loaded or
\* paused therefore leaves the message empty).
C37_ErrorMessageIffError ==
    (error_message # None) <=> (state = "error")

\* a step from paused has failed: the state is error and the message is set;
\* the step before it had left the state paused and no message
C37_Witness ==
    /\ call.op = "step" /\ call.prior = "paused"
    /\ state = "error"
    /\ error_message # None

\* C38: no sequence of reset, load_program, step, get_state and memory-access
\* calls puts the simulator in state running or input_wait: the state is
\* always one of idle, loaded, paused, finished and error; and a call that
\* changes the state makes it idle only when it is reset, loaded only when
\* it is a load_program that returned true, and paused only when it is a step
\* that executed an instruction.
C38_StateTags ==
    /\ [](state \in {"idle", "loaded", "paused", "finished", "error"})
    /\ [][state' # state =>
            /\ state' = "idle" => call'.op = "reset"
            /\ state' = "loaded" => (call'.op = "load_program" /\ ret'.kind = "bool" /\ ret'.v)
            /\ state' = "paused" => (call'.op = "step" /\ Fetches)]_vars

\* the word is in 0 .. 2^32 - 1
In32(w) == 0 <= w.h /\ w.h < Half /\ 0 <= w.l /\ w.l < Half

\* C39: in every state reached by load_program, with any 4-byte-aligned text
\* base in 0 .. 2^32 - 4, and step calls, each of the 32 registers, hi, lo
\* and pc holds an integer in 0 .. 2^32 - 1.
C39_Within32Bits ==
    /\ \A r \in 0 .. 31 : In32(registers[r])
    /\ In32(hi) /\ In32(lo)
    /\ In32(pc)

====
